---- MODULE Spec2Model ----
(***************************************************************************)
(* Operational-resilience layer of ACSAT: the in-memory job-lock manager   *)
(* (src/app/JobLock.py), the token-bucket rate limiter and its registry    *)
(* (src/app/RateLimiter.py), the retry handler (src/app/RetryHandler.py),  *)
(* the schedulers (src/app/Scheduler.py, src/scheduler.py) with the job    *)
(* body of src/Agents/CVECollectorAgent.py, and the session management of  *)
(* src/Database/DatabaseManager.py, and the file importer of               *)
(* src/Data/ImportCVEFromFile/NISTCVEImporter.py, modelled as state        *)
(* machines.                                                               *)
(*                                                                         *)
(* SpecLock    : threads calling acquire_lock / release_lock directly,     *)
(*               interleaved with the wall clock.                          *)
(* SpecLockFair: SpecLock with a clock that keeps running.                 *)
(* SpecCtx     : the same lock manager used only through JobLockContext.   *)
(* SpecCtxFair : SpecCtx with threads that keep running.                   *)
(* SpecRL      : one RateLimiter driven by wait_if_needed and get_stats    *)
(*               calls and the clock.                                      *)
(* SpecReg     : threads calling functions wrapped with rate_limit: the    *)
(*               registry of get_rate_limiter and one limiter per API.     *)
(* SpecRetry   : one operation retried by the retry_with_backoff wrapper   *)
(*               or by RetryableOperation.execute.                         *)
(* SpecDecorate: retry_with_backoff called with any arguments, and the     *)
(*               function it wraps called afterwards.                      *)
(* SpecJob     : a scheduler started once, its worker threads and the job  *)
(*               wrappers they execute.                                    *)
(* SpecRestart : SpecJob with start() called again.                        *)
(* SpecDay     : AgentScheduler with its triggers on the clock of a day.   *)
(* SpecDb      : threads using sessions of get_db, and the leak check.     *)
(* SpecTrack   : sessions of get_db and get_db_no_context in the           *)
(*               ConnectionTracker.                                        *)
(* SpecDiag    : lock calls, tracker calls and the diagnostics of both.    *)
(* SpecImport  : a NISTCVEImporter importing one file after another.       *)
(***************************************************************************)
EXTENDS Integers, Sequences, FiniteSets, TLC

\* ------------------------------------------------------------------ bounds
NumThreads == 2
NumJobs == 2
MaxTime == 2
MaxTimeout == 1
MaxRPM == 2
Resolution == 2
MaxRetries == 3
MaxParam == 2
JitterSteps == 4
MaxStarts == 2
MaxHour == 26
MaxItems == 3
MaxCveIds == 2
BatchSize == 2

Threads == 1..NumThreads
Jobs == 1..NumJobs
Timeouts == 0..MaxTimeout
NoThread == 0

\* ============================================================ JobLock.py

VARIABLES
    active_jobs,   \* JobLockManager.active_jobs: dict job_name -> entry
    lock,          \* JobLockManager.lock: the thread inside `with self.lock`
    now,           \* datetime.utcnow(), in seconds
    pc,            \* per thread: position in acquire_lock / body / release_lock
    frame,         \* per thread: arguments and locals of the running call
    last,          \* the call that completed most recently, and its result
    held,          \* history: job -> granted, and no release_lock for it since
    forced         \* history: job -> its lock was taken over while a body ran

lockVars == <<active_jobs, lock, now, pc, frame, last, held, forced>>

\* state of the rate limiter (RateLimiter.py, below)
VARIABLES
    rpm,           \* RateLimiter.requests_per_minute (= max_tokens)
    tokens,        \* RateLimiter.tokens, in units
    age,           \* time.time() - RateLimiter.last_refill, in ticks (capped)
    rl_lock,       \* RateLimiter.lock: the thread inside `with self.lock`
    rl_pc,         \* per thread: "idle" or "sleep" (inside time.sleep, line 83)
    rl_call,       \* the call in progress: wait_time, and history of its start
    rl_last,       \* the wait_if_needed call that returned most recently
    calls,         \* history: wait_if_needed calls started so far (capped)
    quiet,         \* history: no time has passed since construction
    returns,       \* history: ticks since each return of the last 60 seconds
    stats,         \* what the latest get_stats call returned
    shadow         \* the same limiter without the reset of lines 60-63

rlVars == <<rpm, tokens, age, rl_lock, rl_pc, rl_call, rl_last, calls, quiet,
            returns, stats, shadow>>

\* state of the limiter registry (RateLimiter.py lines 99-158, below)
VARIABLES
    rate_limiters, \* _rate_limiters: dict api_name -> RateLimiter
    limiter_locks, \* threading.Lock objects of the limiters: lock -> holder
    limiter_lock,  \* _limiter_lock: the thread inside `with _limiter_lock`
    reg_pc,        \* per thread: position in the rate_limit wrapper
    reg_frame,     \* per thread: api_name and wait_time of the running call
    reg_last       \* the wrapper call that ended most recently

regVars == <<rate_limiters, limiter_locks, limiter_lock, reg_pc, reg_frame,
             reg_last>>

\* state of the retry handler (RetryHandler.py, below)
VARIABLES
    cfg,            \* max_retries, initial_backoff, max_backoff, multiplier, jitter
    r_shape,        \* "wrapper" (retry_with_backoff) or "oneshot" (RetryableOperation)
    r_pc,           \* "idle", "attempt" (about to invoke) or "sleep" (time.sleep)
    attempt,        \* the loop variable of lines 60 / 145
    last_exception, \* wrapper local, line 58: the attempt whose error it is, 0 = None
    op_attempts,    \* RetryableOperation.attempts
    op_last_error,  \* RetryableOperation.last_error: attempt of the error, 0 = None
    pending,        \* the backoff being slept, and the random draw it used
    r_outcome,      \* how the latest call ended, and the error it raised
    hist            \* history of the call: invocations, failures, waits, ...

retryVars == <<cfg, r_shape, r_pc, attempt, last_exception, op_attempts,
               op_last_error, pending, r_outcome, hist>>

\* ===================== Scheduler.py, scheduler.py, CVECollectorAgent.py

VARIABLES
    j_setup,       \* which scheduler class runs, and the process around it
    j_sched,       \* self.scheduler: "init", "running", "stopping", "stopped"
    j_starts,      \* number of start() calls so far
    j_store,       \* the scheduler's job store: set of (id, trigger) jobs
    j_latest,      \* history: id -> the start() call that last registered it
    j_error,       \* the exception the latest start() call raised, or "none"
    ex_pc,         \* per worker thread: position in the job wrapper and in run
    ex_job,        \* per worker thread: id of the job it executes
    db,            \* per worker thread: the wrapper's local `db`, 0 = unbound
    run_record,    \* per worker thread: the AgentRun object of run()
    stored,        \* per worker thread: the committed status of that record
    result,        \* per worker thread: status of the dict run() returned
    raised,        \* per worker thread: the exception that left the body
    caught,        \* per worker thread: the wrapper's except clause took it
    fetch          \* per worker thread: how _fetch_nvd_feed ended in run():
                   \* "none", "completed" or "error" (logged at line 231)

jobVars == <<j_setup, j_sched, j_starts, j_store, j_latest, j_error, ex_pc,
             ex_job, db, run_record, stored, result, raised, caught, fetch>>

\* ===================================================== DatabaseManager.py

VARIABLES
    initialized,         \* _SessionLocal is not None
    active_connections,  \* ConnectionTracker.active_connections
    open_sessions,       \* sessions created and not closed since their last use
    gen,                 \* per thread: the session its get_db() generator yielded
    gen_last             \* the generator call that completed most recently

dbVars == <<initialized, active_connections, open_sessions, gen, gen_last>>

\* ============================================================ diagnostics

VARIABLES
    diag           \* the diagnostic call that completed most recently

diagVars == <<diag>>

\* ===================================== the scheduler's clock (Scheduler.py)

VARIABLES
    j_cal          \* hour: the local time in hours since midnight of day 0,
                   \* started: the hour of start() (-1 before it), ran: the
                   \* run times the scheduler has dispatched, as (id, at)

calVars == <<j_cal>>

\* ============================ the arguments of retry_with_backoff

VARIABLES
    r_args         \* <<>> before retry_with_backoff is called, then the one
                   \* record of the arguments it was called with

argVars == <<r_args>>

\* ==================================================== NISTCVEImporter.py

VARIABLES
    importer       \* the NISTCVEImporter object and its import_file call:
                   \* pc, the items of the file, idx, imported_count,
                   \* skipped_count, error_count, the CVE ids the database
                   \* has stored, those self.db holds uncommitted, and the
                   \* dict the call returned

impVars == <<importer>>

vars == <<lockVars, rlVars, regVars, retryVars, jobVars, dbVars, diagVars,
          calVars, argVars, impVars>>

besidesLock ==
    <<rlVars, regVars, retryVars, jobVars, dbVars, diagVars, calVars, argVars, impVars>>
besidesRL ==
    <<lockVars, regVars, retryVars, jobVars, dbVars, diagVars, calVars, argVars, impVars>>
besidesReg ==
    <<lockVars, rlVars, retryVars, jobVars, dbVars, diagVars, calVars, argVars, impVars>>
besidesRetry ==
    <<lockVars, rlVars, regVars, jobVars, dbVars, diagVars, calVars, argVars, impVars>>
besidesSched ==
    <<lockVars, rlVars, regVars, retryVars, diagVars, argVars, impVars>>
besidesJob == <<besidesSched, calVars>>
besidesDb ==
    <<lockVars, rlVars, regVars, retryVars, jobVars, diagVars, calVars, argVars, impVars>>
besidesDiag ==
    <<rlVars, regVars, retryVars, jobVars, calVars, argVars, impVars>>

\* ------------------------------------------------- Python dict operations
\* `k in d`
DictHas(d, k) == k \in DOMAIN d

\* `del d[k]`
DictDel(d, k) == [x \in (DOMAIN d) \ {k} |-> d[x]]

\* `d[k] = v`
DictSet(d, k, v) == [x \in (DOMAIN d) \cup {k} |-> IF x = k THEN v ELSE d[x]]

EmptyDict == [x \in {} |-> 0]

\* the tuple (job_lock, started_at) stored at line 60; job_lock is a fresh
\* threading.Lock() that no code ever acquires or compares, so the entry is
\* its timestamp
NewEntry(at) == [started_at |-> at]

\* ------------------------------------------------------------ acquire_lock
\* `with self.lock:` can be entered when no thread is inside it
LockFree_unguarded(m) == TRUE

LockFree(m) == m = NoThread

\* line 42: elapsed = (datetime.utcnow() - started_at).total_seconds()
Elapsed(entry, t_now) == t_now - entry.started_at

\* line 44: if elapsed > timeout_seconds
IsStale_ge(elapsed, timeout_seconds) == elapsed >= timeout_seconds

IsStale_always(elapsed, timeout_seconds) == TRUE

IsStale_never(elapsed, timeout_seconds) == FALSE

IsStale(elapsed, timeout_seconds) == elapsed > timeout_seconds

\* lines 40-56: the table and the verdict after the check.
\* go = TRUE: fall through to "Acquire lock"; go = FALSE: return False
AcquireCheckResult_restamp(d, job_name, timeout_seconds, t_now) ==
    IF DictHas(d, job_name)
    THEN IF IsStale(Elapsed(d[job_name], t_now), timeout_seconds)
         THEN [table |-> DictDel(d, job_name), go |-> TRUE, takeover |-> TRUE]
         ELSE [table |-> DictSet(d, job_name,
                           [d[job_name] EXCEPT !.started_at = t_now]),
               go |-> FALSE, takeover |-> FALSE]
    ELSE [table |-> d, go |-> TRUE, takeover |-> FALSE]

AcquireCheckResult_noCheck(d, job_name, timeout_seconds, t_now) ==
    [table |-> d, go |-> TRUE, takeover |-> FALSE]

AcquireCheckResult(d, job_name, timeout_seconds, t_now) ==
    IF DictHas(d, job_name)
    THEN IF IsStale(Elapsed(d[job_name], t_now), timeout_seconds)
         THEN [table |-> DictDel(d, job_name), go |-> TRUE, takeover |-> TRUE]
         ELSE [table |-> d, go |-> FALSE, takeover |-> FALSE]
    ELSE [table |-> d, go |-> TRUE, takeover |-> FALSE]

\* ------------------------------------------------------------ release_lock
\* lines 68-70: the table after release_lock, and whether it raised
ReleaseResult_unguarded(d, job_name) ==
    IF DictHas(d, job_name)
    THEN [table |-> DictDel(d, job_name), raised |-> FALSE]
    ELSE [table |-> d, raised |-> TRUE]

ReleaseResult(d, job_name) ==
    IF DictHas(d, job_name)
    THEN [table |-> DictDel(d, job_name), raised |-> FALSE]
    ELSE [table |-> d, raised |-> FALSE]

\* ---------------------------------------------------------- JobLockContext
\* line 123: __enter__ raises RuntimeError when the lock was not acquired
EnterRaises_never(acquired) == FALSE

EnterRaises(acquired) == ~acquired

\* line 141: the value __exit__ returns; True would suppress the exception
ExitReturn_suppress == TRUE

ExitReturn == FALSE

\* line 133: __exit__ calls release_lock whatever the exception state
ExitReleases_onlyOnSuccess(exc) == ~exc

ExitReleases(exc) == TRUE

\* ------------------------------------------------------------------- state
\* acquired is JobLockContext.acquired (lines 114, 118)
IdleFrame == [job |-> 0, timeout |-> 0, ctx |-> FALSE, exc |-> FALSE,
              takeover |-> FALSE, acquired |-> FALSE]

\* what `last` records of a completed call: op is "acquire" or "release",
\* ret the value acquire_lock returned, had whether the job had an entry
\* when the call looked, outcome how the call (or the with-block) ended
NoCall == [op |-> "none", job |-> 0, ret |-> FALSE, takeover |-> FALSE,
           had |-> FALSE, outcome |-> "none"]

Done(t, op, ret, had, outcome) ==
    [op |-> op, job |-> frame[t].job, ret |-> ret,
     takeover |-> frame[t].takeover, had |-> had, outcome |-> outcome]

Running(j) == {t \in Threads : pc[t] = "body" /\ frame[t].job = j}

InCritical(t) == pc[t] \in {"acquire_check", "acquire_insert", "release_remove"}

\* ----------------------------------------------------------------- actions
\* a thread calls acquire_lock(job_name, timeout_seconds) directly and
\* enters `with self.lock` (line 38)
CallAcquire(t, j, to) ==
    /\ pc[t] = "idle"
    /\ LockFree(lock)
    /\ lock' = t
    /\ pc' = [pc EXCEPT ![t] = "acquire_check"]
    /\ frame' = [frame EXCEPT ![t] = [IdleFrame EXCEPT !.job = j, !.timeout = to]]
    /\ UNCHANGED <<active_jobs, now, last, held, forced>>
    /\ UNCHANGED besidesLock

\* `with JobLockContext(job_name, timeout_seconds):` __init__, then __enter__
\* calls acquire_lock, which enters `with self.lock` (line 38)
CtxEnter(t, j, to) ==
    /\ pc[t] = "idle"
    /\ LockFree(lock)
    /\ lock' = t
    /\ pc' = [pc EXCEPT ![t] = "acquire_check"]
    /\ frame' = [frame EXCEPT ![t] =
                    [IdleFrame EXCEPT !.job = j, !.timeout = to, !.ctx = TRUE]]
    /\ UNCHANGED <<active_jobs, now, last, held, forced>>
    /\ UNCHANGED besidesLock

\* lines 40-56; on denial the call returns False, and __enter__ (lines
\* 118-127) raises RuntimeError without running the body
AcquireCheck(t) ==
    /\ pc[t] = "acquire_check"
    /\ LET j == frame[t].job
           r == AcquireCheckResult(active_jobs, j, frame[t].timeout, now)
       IN /\ active_jobs' = r.table
          /\ forced' = IF r.takeover /\ Running(j) # {}
                        THEN [forced EXCEPT ![j] = TRUE] ELSE forced
          /\ IF r.go
             THEN /\ pc' = [pc EXCEPT ![t] = "acquire_insert"]
                  /\ frame' = [frame EXCEPT ![t].takeover = r.takeover]
                  /\ UNCHANGED <<lock, last>>
             ELSE /\ lock' = NoThread
                  /\ IF frame[t].ctx /\ ~EnterRaises(FALSE)
                     THEN /\ pc' = [pc EXCEPT ![t] = "body"]
                          /\ UNCHANGED frame
                     ELSE /\ pc' = [pc EXCEPT ![t] = "idle"]
                          /\ frame' = [frame EXCEPT ![t] = IdleFrame]
                  /\ last' = Done(t, "acquire", FALSE, TRUE,
                                  IF frame[t].ctx /\ EnterRaises(FALSE)
                                  THEN "already_running" ELSE "returned")
    /\ UNCHANGED <<now, held>>
    /\ UNCHANGED besidesLock

\* lines 59-63; on success __enter__ returns self and the body starts
AcquireInsert(t) ==
    /\ pc[t] = "acquire_insert"
    /\ LET j == frame[t].job
       IN /\ active_jobs' = DictSet(active_jobs, j, NewEntry(now))
          /\ held' = [held EXCEPT ![j] = TRUE]
    /\ lock' = NoThread
    /\ IF frame[t].ctx /\ ~EnterRaises(TRUE)
       THEN /\ pc' = [pc EXCEPT ![t] = "body"]
            /\ frame' = [frame EXCEPT ![t].acquired = TRUE]
       ELSE /\ pc' = [pc EXCEPT ![t] = "idle"]
            /\ frame' = [frame EXCEPT ![t] = IdleFrame]
    /\ last' = Done(t, "acquire", TRUE, frame[t].takeover,
                    IF frame[t].ctx /\ EnterRaises(TRUE)
                    THEN "already_running" ELSE "returned")
    /\ UNCHANGED <<now, forced>>
    /\ UNCHANGED besidesLock

\* the guarded body ends, normally (e = FALSE) or by raising (e = TRUE);
\* __exit__ (line 133) calls release_lock, which enters `with self.lock`
\* (line 67)
BodyFinish(t, e) ==
    /\ pc[t] = "body"
    /\ LET j == frame[t].job
       IN forced' = IF Running(j) \ {t} = {}
                    THEN [forced EXCEPT ![j] = FALSE] ELSE forced
    /\ IF ExitReleases(e)
       THEN /\ LockFree(lock)
            /\ lock' = t
            /\ pc' = [pc EXCEPT ![t] = "release_remove"]
            /\ frame' = [frame EXCEPT ![t].exc = e]
            /\ UNCHANGED last
       ELSE /\ pc' = [pc EXCEPT ![t] = "idle"]
            /\ frame' = [frame EXCEPT ![t] = IdleFrame]
            /\ last' = Done(t, "release", FALSE, FALSE,
                            IF e /\ ~ExitReturn THEN "raised" ELSE "returned")
            /\ UNCHANGED lock
    /\ UNCHANGED <<active_jobs, now, held>>
    /\ UNCHANGED besidesLock

\* a thread calls release_lock(job_name) directly and enters
\* `with self.lock` (line 67)
CallRelease(t, j) ==
    /\ pc[t] = "idle"
    /\ LockFree(lock)
    /\ lock' = t
    /\ pc' = [pc EXCEPT ![t] = "release_remove"]
    /\ frame' = [frame EXCEPT ![t] = [IdleFrame EXCEPT !.job = j]]
    /\ UNCHANGED <<active_jobs, now, last, held, forced>>
    /\ UNCHANGED besidesLock

\* lines 68-70, and for a context lines 135-141: the exception of the body
\* propagates unless __exit__ returns True
ReleaseRemove(t) ==
    /\ pc[t] = "release_remove"
    /\ LET j == frame[t].job
           r == ReleaseResult(active_jobs, j)
       IN /\ active_jobs' = r.table
          /\ held' = [held EXCEPT ![j] = FALSE]
          /\ last' = Done(t, "release", FALSE, DictHas(active_jobs, j),
                          IF r.raised \/ (frame[t].exc /\ ~ExitReturn)
                          THEN "raised" ELSE "returned")
    /\ lock' = NoThread
    /\ pc' = [pc EXCEPT ![t] = "idle"]
    /\ frame' = [frame EXCEPT ![t] = IdleFrame]
    /\ UNCHANGED <<now, forced>>
    /\ UNCHANGED besidesLock

\* one second passes
Tick ==
    /\ now < MaxTime
    /\ now' = now + 1
    /\ UNCHANGED <<active_jobs, lock, pc, frame, last, held, forced>>
    /\ UNCHANGED besidesLock

\* ========================================================= RateLimiter.py
\* Tokens are counted in units of 1/Resolution token and time in ticks of
\* 60 / (max_tokens * Resolution) seconds, so that refill_rate (line 73,
\* max_tokens / 60 tokens per second) is exactly one unit per tick and every
\* wait of line 79 is a whole number of ticks.  Reads of time.time() within
\* one uninterrupted stretch of code return the same value; time passes
\* between calls and during time.sleep.

Rates == 1..MaxRPM
OneToken == Resolution
MaxTokens(n) == n * Resolution
\* 60 seconds, in ticks
Minute(n) == n * Resolution
\* beyond this age the refill of line 74 saturates whatever the tokens
AgeCap == (MaxRPM + 1) * Resolution
\* the same, for a limiter of rate n: its tokens are never below -1 token
AgeCapOf(n) == (n + 1) * Resolution
CallsCap == MaxRPM + 2

Min(a, b) == IF a <= b THEN a ELSE b

\* line 74: min(max_tokens, tokens + elapsed * refill_rate)
Refill(tok, max_tokens, elapsed) == Min(max_tokens, tok + elapsed)

\* line 78: if self.tokens < 1
NeedsWait_le(tok) == tok <= OneToken

NeedsWait(tok) == tok < OneToken

\* line 79: wait_time = (1 - self.tokens) / refill_rate, in ticks
WaitTime(tok) == OneToken - tok

\* line 84: self.tokens = 0 after the sleep
AfterSleep(tok) == 0

\* line 57: self.tokens -= 1
Consume(tok) == tok - OneToken

\* lines 59-63: elapsed >= 60 resets tokens to max_tokens and last_refill
\* to now; the result is the pair tokens, age
MinuteReset(tok, elapsed, n) ==
    IF elapsed >= Minute(n)
    THEN [tokens |-> MaxTokens(n), age |-> 0]
    ELSE [tokens |-> tok, age |-> elapsed]

\* ---- history of returns (not program state)
\* one more return, now
Returned(rs) == Append(rs, 0)

\* a tick later: returns that are 60 seconds old leave the window
Aged(rs, n) ==
    LET older == [i \in 1..Len(rs) |-> rs[i] + 1]
    IN SelectSeq(older, LAMBDA x : x < Minute(n))

\* ---- the limiter without lines 59-63, run on the same calls
\* live = FALSE once it has answered a call differently or ended a call with
\* a different token count; it is followed no further then
NoResetStart(sh, n) == Refill(sh.tokens, MaxTokens(n), sh.age)

ShadowAfterCall(sh, n, real_blocks, real_tokens) ==
    LET filled == NoResetStart(sh, n)
    IN IF ~sh.live THEN sh
       ELSE IF NeedsWait(filled) # real_blocks
       THEN [live |-> FALSE, tokens |-> filled, age |-> 0]
       ELSE IF real_blocks
       THEN [live |-> TRUE, tokens |-> filled, age |-> 0]
       ELSE [live |-> Consume(filled) = real_tokens,
             tokens |-> Consume(filled), age |-> 0]

ShadowAfterWake(sh, real_tokens) ==
    IF ~sh.live THEN sh
    ELSE [live |-> Consume(AfterSleep(sh.tokens)) = real_tokens,
          tokens |-> Consume(AfterSleep(sh.tokens)),
          age |-> IF Consume(AfterSleep(sh.tokens)) = real_tokens THEN sh.age ELSE 0]

ShadowAfterTick(sh) ==
    IF sh.live /\ sh.age < AgeCap THEN [sh EXCEPT !.age = @ + 1] ELSE sh

\* get_stats, lines 92-96 (requests_per_minute and max_tokens are rpm)
NoStats == [tokens_available |-> 0, taken |-> FALSE]

\* ---- the registry, lines 99-158
\* the names the rate-limit configuration has (nvd_api: line 140; the others
\* after line 9), and a name it has not
ConfiguredApis == {"nvd_api", "github_api"}
UnknownApi == "duckduckgo"
ApiNames == ConfiguredApis \cup {UnknownApi}

\* RATE_LIMITS[api_name]["requests_per_minute"]: every configured API has
\* the rate rpm, so that all limiters share one clock tick
RATE_LIMITS == [a \in ConfiguredApis |-> [requests_per_minute |-> rpm]]

\* line 117
IsKnownApi_any(a) == TRUE

IsKnownApi(a) == a \in DOMAIN RATE_LIMITS

\* line 123, 125
RateOf(a) == RATE_LIMITS[a].requests_per_minute

\* RateLimiter.__init__, lines 42-46, for the limiter of api a: a full bucket
\* and a lock of its own
NewLimiter_classLock(n, a) ==
    [requests_per_minute |-> n, tokens |-> MaxTokens(n), age |-> 0,
     lock |-> "nvd_api"]

NewLimiter(n, a) ==
    [requests_per_minute |-> n, tokens |-> MaxTokens(n), age |-> 0, lock |-> a]

\* line 122: the check repeated inside `with _limiter_lock`
CreatesLimiter_unchecked(d, a) == TRUE

CreatesLimiter(d, a) == ~DictHas(d, a)

NoRegFrame == [api |-> "", wait_time |-> 0]
NoRegCall == [api |-> "", outcome |-> "none",
              blocked |-> FALSE]

\* threads inside time.sleep of the limiter of api a
Sleepers(a) == {t \in Threads : reg_pc[t] = "sleep" /\ reg_frame[t].api = a}

NoRLCall == [index |-> 0, quiet |-> FALSE, blocked |-> FALSE, wait_time |-> 0,
             waited |-> 0]

\* ======================================================== RetryHandler.py
\* Backoffs are whole seconds; a wait is kept in units of 1/(2*JitterSteps)
\* second, so that backoff * (0.5 + random.random()) is a whole number for
\* random.random() in {0, 1/JitterSteps, ..., (JitterSteps-1)/JitterSteps}.
WaitUnit == 2 * JitterSteps
Draws == 0..(JitterSteps - 1)

\* error kinds an operation can raise; Retryable is the `exceptions` tuple of
\* the wrapper (as in retry_on_network_errors, line 120)
Kinds == {"ConnectionError", "ValueError"}
Retryable == {"ConnectionError"}

Shapes == {"wrapper", "oneshot"}

\* effective parameters, lines 50-54 (the one-shot shape takes max_retries
\* from its constructor, line 134, and the rest from RETRY_CONFIG)
Configs ==
    [max_retries : 1..MaxRetries, initial_backoff : 1..MaxParam,
     backoff_multiplier : 1..MaxParam, max_backoff : 1..(MaxParam + 1),
     jitter : BOOLEAN]

Setups == [cfg : Configs, shape : Shapes]

ParkedSetup ==
    [cfg |-> [max_retries |-> 1, initial_backoff |-> 1, backoff_multiplier |-> 1,
              max_backoff |-> 1, jitter |-> FALSE],
     shape |-> "wrapper"]

\* b ** e
RECURSIVE Pow(_, _)
Pow(b, e) == IF e = 0 THEN 1 ELSE b * Pow(b, e - 1)

\* lines 78 / 156-157
RawBackoff_offByOne(c, k) == c.initial_backoff * Pow(c.backoff_multiplier, k)

RawBackoff(c, k) == c.initial_backoff * Pow(c.backoff_multiplier, k - 1)

\* lines 77-84 / 155-162: the sleep after failed attempt k, in wait units,
\* when random.random() returned r / JitterSteps
BackoffWait_jitterThenClamp(c, k, r) ==
    IF c.jitter
    THEN Min(RawBackoff(c, k) * (JitterSteps + 2 * r), c.max_backoff * WaitUnit)
    ELSE Min(RawBackoff(c, k), c.max_backoff) * WaitUnit

BackoffWait(c, k, r) ==
    LET backoff == Min(RawBackoff(c, k), c.max_backoff)
    IN IF c.jitter THEN backoff * (JitterSteps + 2 * r)
       ELSE backoff * WaitUnit

\* line 72: `except exceptions`; line 151: `except Exception`
Catches(shape, kind) ==
    IF shape = "wrapper" THEN kind \in Retryable ELSE TRUE

\* lines 75 / 154, and the end of the range of lines 60 / 145
HasNextAttempt_oneMore(k, max_retries) == k < max_retries + 1

HasNextAttempt_always(k, max_retries) == TRUE

HasNextAttempt(k, max_retries) == k < max_retries

\* the arguments retry_with_backoff can be called with, lines 26-30: an
\* argument that is not passed has the value None, written -1 for the
\* numbers
RetryArgs ==
    [max_retries : (-1)..MaxRetries, initial_backoff : (-1)..MaxParam,
     backoff_multiplier : (-1)..MaxParam, max_backoff : (-1)..(MaxParam + 1),
     jitter : {"None", "True", "False"}]

\* the configured defaults
RETRY_CONFIG ==
    [max_retries |-> MaxRetries, initial_backoff |-> 1,
     backoff_multiplier |-> MaxParam, max_backoff |-> MaxParam + 1,
     jitter |-> TRUE]

\* `x or default`, lines 50-53: x when x is truthy
OrDefault(x, default) == IF x < 0 \/ x = 0 THEN default ELSE x

\* lines 50-54: the values the wrapper closes over
EffectiveConfig(a) ==
    [max_retries |-> OrDefault(a.max_retries, RETRY_CONFIG.max_retries),
     initial_backoff |-> OrDefault(a.initial_backoff, RETRY_CONFIG.initial_backoff),
     backoff_multiplier |->
         OrDefault(a.backoff_multiplier, RETRY_CONFIG.backoff_multiplier),
     max_backoff |-> OrDefault(a.max_backoff, RETRY_CONFIG.max_backoff),
     jitter |-> IF a.jitter = "None" THEN RETRY_CONFIG.jitter
                ELSE a.jitter = "True"]

NoPending == [wait |-> 0, draw |-> 0]
NoOutcome == [kind |-> "none", error |-> 0]
NoHist == [invoked |-> 0, failed |-> 0, waits |-> <<>>, unclassified |-> FALSE,
           error |-> 0, executes |-> 0]

\* ------------------------------------------------ the schedulers' job table
\* AgentScheduler (src/app/Scheduler.py) or TaskScheduler (src/scheduler.py);
\* darknet_enabled is os.getenv("DARKNET_ENABLED") == "true"
JobSetups == {[class |-> "AgentScheduler", darknet_enabled |-> FALSE]} \cup
             {[class |-> "TaskScheduler", darknet_enabled |-> e] : e \in BOOLEAN}

\* one add_job call: its id, its replace_existing argument and whether its
\* trigger fires once (no trigger argument: run once, now) or recurs
Registration(id, replace_existing, once) ==
    [id |-> id, replace_existing |-> replace_existing, once |-> once]

\* AgentScheduler.start, the add_job calls of lines 32-54 in order
AgentRegistrations ==
    << Registration("cve_collector", TRUE, FALSE),
       Registration("darknet_scraper", TRUE, FALSE),
       Registration("cve_collector_startup", FALSE, TRUE) >>

\* TaskScheduler.start, the add_job calls of lines 42-74 in order
TaskRegistrations(darknet_enabled) ==
    << Registration("cve_job", TRUE, FALSE),
       Registration("news_job", TRUE, FALSE),
       Registration("poc_hunter_job", TRUE, FALSE) >> \o
    (IF darknet_enabled THEN << Registration("darknet_job", TRUE, FALSE) >>
                        ELSE << >>)

Registrations(setup) ==
    IF setup.class = "AgentScheduler" THEN AgentRegistrations
    ELSE TaskRegistrations(setup.darknet_enabled)

JobIds == {"cve_collector", "darknet_scraper", "cve_collector_startup",
           "cve_job", "news_job", "poc_hunter_job", "darknet_job"}

\* the ids whose func is _run_cve_agent, which calls CVECollectorAgent.run
CveJobIds == {"cve_collector", "cve_collector_startup", "cve_job"}

\* the add_job calls without a trigger argument
OnceJobIds == {"cve_collector_startup"}

\* BackgroundScheduler.add_job as the scheduler applies it to its job store:
\* a job whose id is in the store is replaced when replace_existing is set,
\* and the call raises ConflictingIdError and leaves the store when it is not
AddJob(store, reg, trig) ==
    LET same == {r \in store : r.id = reg.id}
        job == [id |-> reg.id, trig |-> trig]
    IN  IF same = {} THEN [store |-> store \cup {job}, error |-> "none"]
        ELSE IF reg.replace_existing
             THEN [store |-> (store \ same) \cup {job}, error |-> "none"]
             ELSE [store |-> store, error |-> "ConflictingIdError"]

\* the add_job calls of one start() in order; an exception ends start()
RECURSIVE AddJobs(_, _, _, _)
AddJobs(store, latest, regs, trig) ==
    IF regs = << >> THEN [store |-> store, latest |-> latest, error |-> "none"]
    ELSE LET a == AddJob(store, Head(regs), trig)
             l == [latest EXCEPT ![Head(regs).id] = trig]
         IN  IF a.error # "none"
             THEN [store |-> a.store, latest |-> l, error |-> a.error]
             ELSE AddJobs(a.store, l, Tail(regs), trig)

\* ------------------------------------------------------- job execution
\* AgentRun(agent_name="cve_agent", status="running"), line 125
NewRunRecord == [status |-> "running", error_message |-> "", completed_at |-> FALSE]
NoRunRecord == [status |-> "none", error_message |-> "", completed_at |-> FALSE]

\* run(), lines 137-140
SuccessRecord(rec) == [rec EXCEPT !.status = "success", !.completed_at = TRUE]

\* run(), lines 147-150: error_message = str(e)
FailedRecord_statusKept(rec, e) ==
    [rec EXCEPT !.error_message = e, !.completed_at = TRUE]
FailedRecord(rec, e) ==
    [rec EXCEPT !.status = "failed", !.error_message = e, !.completed_at = TRUE]

\* _fetch_nvd_feed, lines 181-233: every exception of the request, of the
\* parsing, of the loop and of the commit of line 228 is caught and logged
\* at lines 230-231, and the list is returned either way
FetchEnd(fetch_ok) == IF fetch_ok THEN "completed" ELSE "error"

\* `except Exception as e` of the wrappers: Scheduler.py lines 68 and 80,
\* scheduler.py lines 86, 104, 116 and 128
WrapperCatches_never(e) == FALSE
WrapperCatches(e) == e # "none"

\* `finally: db.close()` of the wrappers: Scheduler.py lines 70-71 and 82-83,
\* scheduler.py lines 88-89, 106-107, 118-119 and 130-131
WrapperCloses_nothing(s) == {}
WrapperCloses(s) == {s}

\* a session object the process does not hold yet: _SessionLocal() of
\* DatabaseManager.py line 162, SessionLocal() of scheduler.py line 99
NewSession(live) ==
    IF \E s \in 1..(2 * NumThreads) : s \notin live
    THEN CHOOSE s \in 1..(2 * NumThreads) :
             s \notin live /\ \A x \in 1..(2 * NumThreads) : x \notin live => s <= x
    ELSE 0

\* ------------------------------------------------------ ConnectionTracker
\* register_connection, lines 37-46: a thread's earlier entry is overwritten
RegisterConnection(ac, t, s, at) == DictSet(ac, t, [session |-> s, at |-> at])

\* unregister_connection, lines 48-53
UnregisterConnection_keeps(ac, t) == ac
UnregisterConnection(ac, t) == IF DictHas(ac, t) THEN DictDel(ac, t) ELSE ac

\* check_for_leaks, lines 55-73: the threads it logs a warning for
LeakWarnings(ac, at, max_age_seconds) ==
    {t \in DOMAIN ac : at - ac[t].at > max_age_seconds}

\* ----------------------------------------------------------------- get_db
\* what one call on a get_db() generator did: op is "next", "resume" (next()
\* after the yield), "throw", "close" or "with"; user tells how the code
\* that used the session ended
GenCall(t, op, user, s, committed, rolled_back, closed, error) ==
    [thread |-> t, op |-> op, user |-> user, session |-> s,
     committed |-> committed, rolled_back |-> rolled_back, closed |-> closed,
     error |-> error]
NoGenCall == GenCall(NoThread, "none", "none", 0, FALSE, FALSE, FALSE, "none")

\* how a generator suspended at its yield can be left: the driver resumes
\* it after the user's code completed, throws the user's exception into
\* it, or closes it (GeneratorExit), which is also what finalizing a
\* generator that is no longer referenced does, whatever the user does
GenEnds == {[op |-> "resume", user |-> "completed"],
            [op |-> "throw", user |-> "failed"],
            [op |-> "close", user |-> "completed"],
            [op |-> "close", user |-> "failed"]}

\* lines 156-159
GetDbRaises(inited) == ~inited

\* `db.commit()` after the yield, line 173: runs when the generator is
\* resumed by next(), not when an exception or GeneratorExit enters it
CommitsOn(op) == op = "resume"

\* `except Exception`, lines 176-180: GeneratorExit is no Exception
RollsBackOn(op, commit_ok) == op = "throw" \/ (op = "resume" /\ ~commit_ok)

\* the exception that leaves the generator: `raise` of line 180 re-raises
\* what entered the except clause
GenError(op, commit_ok) ==
    IF op = "throw" THEN "user_error"
    ELSE IF op = "resume" /\ ~commit_ok THEN "commit_error"
    ELSE "none"

\* ------------------------------------------------------------ diagnostics
\* get_running_jobs, JobLock.py lines 77-86
RunningJobs_backwards(d, at) ==
    {[name |-> j, elapsed_seconds |-> d[j].started_at - at] : j \in DOMAIN d}
RunningJobs(d, at) ==
    {[name |-> j, elapsed_seconds |-> Elapsed(d[j], at)] : j \in DOMAIN d}

NoDiag == [op |-> "none", job |-> 0, is_running |-> FALSE, running |-> {},
           warned |-> {}]

\* ------------------------------------------- the triggers of AgentScheduler
HoursPerDay == 24
DayOf(h) == h \div HoursPerDay

NoCalendar == [hour |-> 0, started |-> -1, ran |-> {}]

\* CronTrigger(hour=2, minute=0) of line 34 and CronTrigger(hour='8,20',
\* minute=0) of line 43: the hours of the day at whose start the job is due
CronHours(id) ==
    IF id = "cve_collector" THEN {2}
    ELSE IF id = "darknet_scraper" THEN {8, 20}
    ELSE {}

\* the scheduler finds job id due: a job without trigger (lines 50-54) is due
\* from the moment it is added; a cron job is due at the start of each of its
\* hours, once, when the scheduler was running before that hour began
Due(id, cal) ==
    IF id \in OnceJobIds THEN TRUE
    ELSE /\ (cal.hour % HoursPerDay) \in CronHours(id)
         /\ cal.started >= 0
         /\ cal.started < cal.hour
         /\ [id |-> id, at |-> cal.hour] \notin cal.ran

\* ------------------------------------------------------- NISTCVEImporter
\* an item of a feed file is written as its CVE id, 0 for an item that has
\* none (line 119); a file is the list of its items
CveFiles == UNION {[1..n -> 0..MaxCveIds] : n \in 0..MaxItems}

\* the dict import_file returns
ImportResult(imported, skipped, errors) ==
    [imported |-> imported, skipped |-> skipped, errors |-> errors]
NoImportResult == ImportResult(-1, -1, -1)

\* NISTCVEImporter.__init__, lines 41-46, on an empty database
NewImporter ==
    [pc |-> "idle", file |-> <<>>, idx |-> 0, imported_count |-> 0,
     skipped_count |-> 0, error_count |-> 0, stored |-> {}, pending |-> {},
     result |-> NoImportResult]

\* _process_cve_item, lines 109-241, for an item with the id cve_id on the
\* importer m; q_ok tells whether the query of line 124 returns. The query
\* flushes the session first, so that it finds the ids added earlier in the
\* file. Field raised tells whether an exception leaves the method.
ProcessCveItem(m, cve_id, q_ok) ==
    IF cve_id = 0
    THEN [m EXCEPT !.error_count = @ + 1] @@ [raised |-> FALSE]
    ELSE IF ~q_ok THEN m @@ [raised |-> TRUE]
    ELSE IF cve_id \in m.stored \cup m.pending
    THEN [m EXCEPT !.skipped_count = @ + 1] @@ [raised |-> FALSE]
    ELSE [m EXCEPT !.pending = @ \cup {cve_id}, !.imported_count = @ + 1]
             @@ [raised |-> FALSE]

\* line 83 (scaled): commit every BatchSize records
BatchDue(idx) == idx % BatchSize = 0

\* the scheduler class a process constructs, and whether the process has
\* called DatabaseManager.init_db; TaskScheduler does not use DatabaseManager
Processes ==
    {[setup |-> su, initialized |-> i] : su \in JobSetups, i \in BOOLEAN} \
    {[setup |-> su, initialized |-> FALSE] :
        su \in {x \in JobSetups : x.class = "TaskScheduler"}}
ParkedProcess == [setup |-> [class |-> "AgentScheduler", darknet_enabled |-> FALSE],
                  initialized |-> TRUE]
DbProcesses == {[setup |-> ParkedProcess.setup, initialized |-> FALSE]}

\* JobLockManager.__init__ (JobLock.py lines 23-25) and RateLimiter.__init__
\* (RateLimiter.py lines 42-46)
InitWith(rates, setups, processes) ==
    /\ active_jobs = EmptyDict
    /\ lock = NoThread
    /\ now = 0
    /\ pc = [t \in Threads |-> "idle"]
    /\ frame = [t \in Threads |-> IdleFrame]
    /\ last = NoCall
    /\ held = [j \in Jobs |-> FALSE]
    /\ forced = [j \in Jobs |-> FALSE]
    /\ rpm \in rates
    /\ tokens = MaxTokens(rpm)
    /\ age = 0
    /\ rl_lock = NoThread
    /\ rl_pc = [t \in Threads |-> "idle"]
    /\ rl_call = NoRLCall
    /\ rl_last = NoRLCall
    /\ calls = 0
    /\ quiet = TRUE
    /\ returns = <<>>
    /\ stats = NoStats
    /\ shadow = [live |-> TRUE, tokens |-> MaxTokens(rpm), age |-> 0]
    /\ rate_limiters = EmptyDict
    /\ limiter_locks = [l \in ApiNames |-> NoThread]
    /\ limiter_lock = NoThread
    /\ reg_pc = [t \in Threads |-> "idle"]
    /\ reg_frame = [t \in Threads |-> NoRegFrame]
    /\ reg_last = NoRegCall
    /\ \E su \in setups : cfg = su.cfg /\ r_shape = su.shape
    /\ r_pc = "idle"
    /\ attempt = 0
    /\ last_exception = 0
    /\ op_attempts = 0
    /\ op_last_error = 0
    /\ pending = NoPending
    /\ r_outcome = NoOutcome
    /\ hist = NoHist
    /\ \E p \in processes : j_setup = p.setup /\ initialized = p.initialized
    /\ j_sched = "init"
    /\ j_starts = 0
    /\ j_store = {}
    /\ j_latest = [i \in JobIds |-> 0]
    /\ j_error = "none"
    /\ ex_pc = [t \in Threads |-> "idle"]
    /\ ex_job = [t \in Threads |-> "none"]
    /\ db = [t \in Threads |-> 0]
    /\ run_record = [t \in Threads |-> NoRunRecord]
    /\ stored = [t \in Threads |-> "none"]
    /\ result = [t \in Threads |-> "none"]
    /\ raised = [t \in Threads |-> "none"]
    /\ caught = [t \in Threads |-> FALSE]
    /\ fetch = [t \in Threads |-> "none"]
    /\ active_connections = EmptyDict
    /\ open_sessions = {}
    /\ gen = [t \in Threads |-> 0]
    /\ gen_last = NoGenCall
    /\ diag = NoDiag
    /\ j_cal = NoCalendar
    /\ r_args = <<>>
    /\ importer = NewImporter

\* a limiter of any configured rate
Init == InitWith(Rates, {ParkedSetup}, {ParkedProcess})

\* a limiter that is constructed and never used
InitParked == InitWith({1}, {ParkedSetup}, {ParkedProcess})

\* a retry handler of any configuration and either shape, not yet called
InitRetry == InitWith({1}, Setups, {ParkedProcess})

\* either scheduler class, constructed in a process that called
\* DatabaseManager.init_db or did not
InitJob == InitWith({1}, {ParkedSetup}, Processes)

\* a process that has not called DatabaseManager.init_db yet
InitDb == InitWith({1}, {ParkedSetup}, DbProcesses)

\* wait_if_needed up to the sleep, or to its return when no sleep is needed:
\* lines 55-56 and 69-79, then either time.sleep (line 83) or lines 86-87
\* and 57-65
RLCall(t) ==
    /\ rl_pc[t] = "idle"
    /\ LockFree(rl_lock)
    /\ LET filled == Refill(tokens, MaxTokens(rpm), age)
           index == Min(calls + 1, CallsCap)
       IN /\ calls' = index
          /\ IF NeedsWait(filled)
             THEN /\ tokens' = filled
                  /\ age' = 0
                  /\ rl_lock' = t
                  /\ rl_pc' = [rl_pc EXCEPT ![t] = "sleep"]
                  /\ rl_call' = [index |-> index, quiet |-> quiet, blocked |-> TRUE,
                                 wait_time |-> WaitTime(filled), waited |-> 0]
                  /\ shadow' = ShadowAfterCall(shadow, rpm, TRUE, filled)
                  /\ UNCHANGED <<rl_last, returns>>
             ELSE LET r == MinuteReset(Consume(filled), 0, rpm)
                  IN /\ tokens' = r.tokens
                     /\ age' = r.age
                     /\ rl_last' = [index |-> index, quiet |-> quiet,
                                    blocked |-> FALSE, wait_time |-> 0, waited |-> 0]
                     /\ returns' = Returned(returns)
                     /\ shadow' = ShadowAfterCall(shadow, rpm, FALSE, r.tokens)
                     /\ UNCHANGED <<rl_lock, rl_pc, rl_call>>
    /\ UNCHANGED <<rpm, quiet, stats>>
    /\ UNCHANGED besidesRL

\* time.sleep returns, no earlier than wait_time after it was called:
\* lines 84-87 and 57-65
RLWake(t) ==
    /\ rl_pc[t] = "sleep"
    /\ age >= rl_call.wait_time
    /\ LET r == MinuteReset(Consume(AfterSleep(tokens)), age, rpm)
       IN /\ tokens' = r.tokens
          /\ age' = r.age
          /\ shadow' = ShadowAfterWake(shadow, r.tokens)
    /\ rl_last' = [rl_call EXCEPT !.waited = age]
    /\ rl_call' = NoRLCall
    /\ rl_lock' = NoThread
    /\ rl_pc' = [rl_pc EXCEPT ![t] = "idle"]
    /\ returns' = Returned(returns)
    /\ UNCHANGED <<rpm, calls, quiet, stats>>
    /\ UNCHANGED besidesRL

\* one tick passes
RLTick ==
    /\ age < AgeCap
    /\ age' = age + 1
    /\ quiet' = FALSE
    /\ returns' = Aged(returns, rpm)
    /\ shadow' = ShadowAfterTick(shadow)
    /\ UNCHANGED <<rpm, tokens, rl_lock, rl_pc, rl_call, rl_last, calls, stats>>
    /\ UNCHANGED besidesRL

\* get_stats, lines 89-96: enters `with self.lock` and reads the fields
RLStats(t) ==
    /\ rl_pc[t] = "idle"
    /\ LockFree(rl_lock)
    /\ stats' = [tokens_available |-> tokens, taken |-> TRUE]
    /\ UNCHANGED <<rpm, tokens, age, rl_lock, rl_pc, rl_call, rl_last, calls,
                   quiet, returns, shadow>>
    /\ UNCHANGED besidesRL

\* ------------------------------------------------------------------- specs
\* ---- rate_limit(api_name): wrapper, lines 147-154
\* line 148 into get_rate_limiter, lines 117-120
RegCall(t, a) ==
    /\ reg_pc[t] = "idle"
    /\ IF ~IsKnownApi(a)
       THEN /\ reg_last' = [api |-> a, outcome |-> "unknown_api",
                            blocked |-> FALSE]
            /\ UNCHANGED <<reg_pc, reg_frame>>
       ELSE /\ reg_pc' = [reg_pc EXCEPT ![t] =
                             IF DictHas(rate_limiters, a) THEN "have"
                             ELSE "want_lock"]
            /\ reg_frame' = [reg_frame EXCEPT ![t] = [api |-> a, wait_time |-> 0]]
            /\ UNCHANGED reg_last
    /\ UNCHANGED <<rate_limiters, limiter_locks, limiter_lock>>
    /\ UNCHANGED besidesReg

\* line 121: `with _limiter_lock`
RegLock(t) ==
    /\ reg_pc[t] = "want_lock"
    /\ LockFree(limiter_lock)
    /\ limiter_lock' = t
    /\ reg_pc' = [reg_pc EXCEPT ![t] = "locked"]
    /\ UNCHANGED <<rate_limiters, limiter_locks, reg_frame, reg_last>>
    /\ UNCHANGED besidesReg

\* lines 122-130, and leaving the with-block
RegCreate(t) ==
    /\ reg_pc[t] = "locked"
    /\ LET a == reg_frame[t].api
       IN rate_limiters' =
              IF CreatesLimiter(rate_limiters, a)
              THEN DictSet(rate_limiters, a, NewLimiter(RateOf(a), a))
              ELSE rate_limiters
    /\ limiter_lock' = NoThread
    /\ reg_pc' = [reg_pc EXCEPT ![t] = "have"]
    /\ UNCHANGED <<limiter_locks, reg_frame, reg_last>>
    /\ UNCHANGED besidesReg

\* line 132, then line 149: wait_if_needed of the limiter, up to its return
\* (then func is invoked, line 154) or up to time.sleep
RegWait(t) ==
    /\ reg_pc[t] = "have"
    /\ LET a == reg_frame[t].api
           lim == rate_limiters[a]
           n == lim.requests_per_minute
           filled == Refill(lim.tokens, MaxTokens(n), lim.age)
       IN /\ LockFree(limiter_locks[lim.lock])
          /\ IF NeedsWait(filled)
             THEN /\ rate_limiters' = [rate_limiters EXCEPT
                                         ![a].tokens = filled, ![a].age = 0]
                  /\ limiter_locks' = [limiter_locks EXCEPT ![lim.lock] = t]
                  /\ reg_pc' = [reg_pc EXCEPT ![t] = "sleep"]
                  /\ reg_frame' = [reg_frame EXCEPT
                                     ![t].wait_time = WaitTime(filled)]
                  /\ UNCHANGED reg_last
             ELSE LET r == MinuteReset(Consume(filled), 0, n)
                  IN /\ rate_limiters' = [rate_limiters EXCEPT
                                            ![a].tokens = r.tokens,
                                            ![a].age = r.age]
                     /\ reg_pc' = [reg_pc EXCEPT ![t] = "idle"]
                     /\ reg_frame' = [reg_frame EXCEPT ![t] = NoRegFrame]
                     /\ reg_last' = [api |-> a,
                                     outcome |-> "invoked", blocked |-> FALSE]
                     /\ UNCHANGED limiter_locks
    /\ UNCHANGED limiter_lock
    /\ UNCHANGED besidesReg

\* time.sleep returns: lines 84-87, 57-65, then func is invoked (line 154)
RegWake(t) ==
    /\ reg_pc[t] = "sleep"
    /\ LET a == reg_frame[t].api
           lim == rate_limiters[a]
           r == MinuteReset(Consume(AfterSleep(lim.tokens)), lim.age,
                            lim.requests_per_minute)
       IN /\ lim.age >= reg_frame[t].wait_time
          /\ rate_limiters' = [rate_limiters EXCEPT
                                 ![a].tokens = r.tokens, ![a].age = r.age]
          /\ limiter_locks' = [limiter_locks EXCEPT ![lim.lock] = NoThread]
          /\ reg_last' = [api |-> a, outcome |-> "invoked",
                          blocked |-> TRUE]
    /\ reg_pc' = [reg_pc EXCEPT ![t] = "idle"]
    /\ reg_frame' = [reg_frame EXCEPT ![t] = NoRegFrame]
    /\ UNCHANGED limiter_lock
    /\ UNCHANGED besidesReg

\* time passes for every limiter
RegTick ==
    /\ \E a \in DOMAIN rate_limiters :
           rate_limiters[a].age < AgeCapOf(rate_limiters[a].requests_per_minute)
    /\ rate_limiters' = [a \in DOMAIN rate_limiters |->
                            [rate_limiters[a] EXCEPT !.age =
                                Min(@ + 1, AgeCapOf(rate_limiters[a].requests_per_minute))]]
    /\ UNCHANGED <<limiter_locks, limiter_lock, reg_pc, reg_frame, reg_last>>
    /\ UNCHANGED besidesReg

\* ---- retry_with_backoff wrapper (lines 57-99) and
\* ---- RetryableOperation.execute (lines 138-171)
\* the call starts: line 58 for the wrapper; execute resets nothing
RetryStart ==
    /\ r_pc = "idle"
    /\ r_pc' = "attempt"
    /\ attempt' = 1
    /\ last_exception' = 0
    /\ r_outcome' = NoOutcome
    /\ hist' = [NoHist EXCEPT !.executes = Min(hist.executes + 1, 2)]
    /\ UNCHANGED <<cfg, r_shape, op_attempts, op_last_error, pending>>
    /\ UNCHANGED besidesRetry

\* one pass of the loop body: the operation is invoked and returns (res =
\* "ok") or raises an error of kind res
RetryAttempt(res, r) ==
    /\ r_pc = "attempt"
    /\ op_attempts' = IF r_shape = "oneshot" THEN attempt ELSE op_attempts
    /\ IF res = "ok"
       THEN \* lines 70 / 149
            /\ r = 0
            /\ r_pc' = "idle"
            /\ r_outcome' = [kind |-> "returned", error |-> 0]
            /\ hist' = [hist EXCEPT !.invoked = @ + 1]
            /\ UNCHANGED <<last_exception, op_last_error, pending>>
       ELSE IF ~Catches(r_shape, res)
       THEN \* no except clause matches: the error leaves the call
            /\ r = 0
            /\ r_pc' = "idle"
            /\ r_outcome' = [kind |-> "propagated", error |-> attempt]
            /\ hist' = [hist EXCEPT !.invoked = @ + 1, !.failed = @ + 1,
                                    !.unclassified = TRUE, !.error = attempt]
            /\ UNCHANGED <<last_exception, op_last_error, pending>>
       ELSE \* lines 73 / 152
            /\ last_exception' =
                   IF r_shape = "wrapper" THEN attempt ELSE last_exception
            /\ op_last_error' =
                   IF r_shape = "oneshot" THEN attempt ELSE op_last_error
            /\ hist' = [hist EXCEPT !.invoked = @ + 1, !.failed = @ + 1,
                                    !.unclassified = @ \/ res \notin Retryable,
                                    !.error = attempt]
            /\ IF HasNextAttempt(attempt, cfg.max_retries)
               THEN \* lines 77-91 / 155-168
                    /\ cfg.jitter \/ r = 0
                    /\ pending' = [wait |-> BackoffWait(cfg, attempt, r),
                                   draw |-> r]
                    /\ r_pc' = "sleep"
                    /\ UNCHANGED r_outcome
               ELSE \* lines 99 / 171
                    /\ r = 0
                    /\ r_pc' = "idle"
                    /\ r_outcome' = [kind |-> "exhausted",
                                     error |-> IF r_shape = "wrapper"
                                               THEN last_exception'
                                               ELSE op_last_error']
                    /\ UNCHANGED pending
    /\ UNCHANGED <<cfg, r_shape, attempt>>
    /\ UNCHANGED besidesRetry

\* time.sleep(backoff) returns and the loop goes on
RetryWake ==
    /\ r_pc = "sleep"
    /\ r_pc' = "attempt"
    /\ attempt' = attempt + 1
    /\ hist' = [hist EXCEPT !.waits = Append(@, pending.wait)]
    /\ pending' = NoPending
    /\ UNCHANGED <<cfg, r_shape, last_exception, op_attempts, op_last_error,
                   r_outcome>>
    /\ UNCHANGED besidesRetry

\* retry_with_backoff(...) is called with the arguments a and its decorator
\* is applied to a function: lines 49-56 and 101-103
Decorate(a) ==
    /\ r_args = <<>>
    /\ r_pc = "idle"
    /\ r_args' = <<a>>
    /\ cfg' = EffectiveConfig(a)
    /\ r_shape' = "wrapper"
    /\ UNCHANGED <<r_pc, attempt, last_exception, op_attempts, op_last_error,
                   pending, r_outcome, hist>>
    /\ UNCHANGED <<lockVars, rlVars, regVars, jobVars, dbVars, diagVars, calVars,
                   impVars>>

\* the decorated function is called
DecoratedCall ==
    /\ r_args # <<>>
    /\ RetryStart

\* ---- NISTCVEImporter (src/Data/ImportCVEFromFile/NISTCVEImporter.py)

\* import_file(file_path) up to the loop, lines 50-74: a file that is missing
\* ends the call with one error, before the counters are reset (lines 52-54)
ImportStart(f, readable) ==
    /\ importer.pc \in {"idle", "done"}
    /\ importer' =
           IF readable
           THEN [importer EXCEPT !.pc = "loop", !.file = f, !.idx = 1,
                                 !.imported_count = 0, !.skipped_count = 0,
                                 !.error_count = 0, !.result = NoImportResult]
           ELSE [importer EXCEPT !.pc = "done", !.file = <<>>, !.idx = 0,
                                 !.result = ImportResult(0, 0, 1)]
    /\ UNCHANGED <<lockVars, rlVars, regVars, retryVars, jobVars, dbVars,
                   diagVars, calVars, argVars>>

\* one pass of the loop of lines 76-87: the item is processed, the batch is
\* committed when it is due (commit_ok tells whether that commit returns;
\* a failed commit loses what the session held), and the except clause of
\* lines 85-87 counts an error for whatever was raised
ImportItem(q_ok, commit_ok) ==
    /\ importer.pc = "loop"
    /\ importer.idx <= Len(importer.file)
    /\ LET p == ProcessCveItem(importer, importer.file[importer.idx], q_ok)
           m == [x \in DOMAIN importer |-> p[x]]
           c == IF p.raised THEN [m EXCEPT !.error_count = @ + 1]
                ELSE IF ~BatchDue(importer.idx) THEN m
                ELSE IF commit_ok
                THEN [m EXCEPT !.stored = @ \cup m.pending, !.pending = {}]
                ELSE [m EXCEPT !.pending = {}, !.error_count = @ + 1]
       IN  importer' = [c EXCEPT !.idx = @ + 1]
    /\ UNCHANGED <<lockVars, rlVars, regVars, retryVars, jobVars, dbVars,
                   diagVars, calVars, argVars>>

\* lines 89-107: the final commit and the returned dict; when the commit
\* raises, the except clause of lines 105-107 returns one error
ImportFinish(commit_ok) ==
    /\ importer.pc = "loop"
    /\ importer.idx > Len(importer.file)
    /\ importer' =
           IF commit_ok
           THEN [importer EXCEPT !.pc = "done",
                    !.stored = @ \cup importer.pending, !.pending = {},
                    !.result = ImportResult(importer.imported_count,
                                            importer.skipped_count,
                                            importer.error_count)]
           ELSE [importer EXCEPT !.pc = "done", !.pending = {},
                                 !.result = ImportResult(0, 0, 1)]
    /\ UNCHANGED <<lockVars, rlVars, regVars, retryVars, jobVars, dbVars,
                   diagVars, calVars, argVars>>

NextImport ==
    \/ \E f \in CveFiles, readable \in BOOLEAN : ImportStart(f, readable)
    \/ \E q_ok \in BOOLEAN, commit_ok \in BOOLEAN : ImportItem(q_ok, commit_ok)
    \/ \E commit_ok \in BOOLEAN : ImportFinish(commit_ok)

\* ---- AgentScheduler (src/app/Scheduler.py) and TaskScheduler
\* ---- (src/scheduler.py)

\* sessions some thread still refers to, or that were never closed
LiveSessions == {db[w] : w \in Threads} \cup {gen[t] : t \in Threads} \cup open_sessions

\* start(): Scheduler.py lines 26-59, scheduler.py lines 39-77: the add_job
\* calls, then self.scheduler.start(), which raises when already running
StartCall ==
    /\ UNCHANGED fetch
    /\ LET a == AddJobs(j_store, j_latest, Registrations(j_setup), j_starts + 1)
       IN  /\ j_store' = a.store
           /\ j_latest' = a.latest
           /\ j_error' = IF a.error # "none" THEN a.error
                          ELSE IF j_sched = "running"
                               THEN "SchedulerAlreadyRunningError" ELSE "none"
           /\ j_sched' = IF a.error = "none" THEN "running" ELSE j_sched
    /\ j_starts' = j_starts + 1
    /\ j_cal' = [j_cal EXCEPT !.started = IF @ < 0 THEN j_cal.hour ELSE @]
    /\ UNCHANGED <<j_setup, ex_pc, ex_job, db, run_record, stored, result,
                   raised, caught>>
    /\ UNCHANGED <<dbVars, besidesSched>>

\* the start() that main() and run_scheduler() call on the scheduler they
\* have constructed: main.py lines 76-77, Scheduler.py lines 93-94
Start ==
    /\ j_sched = "init"
    /\ StartCall

\* start() called again on a scheduler that is running
Restart ==
    /\ j_sched = "running"
    /\ j_starts < MaxStarts
    /\ StartCall

\* stop(): Scheduler.py lines 85-88, scheduler.py lines 92-95:
\* self.scheduler.shutdown() stops the dispatch of further triggers ...
StopCall ==
    /\ UNCHANGED fetch
    /\ j_sched = "running"
    /\ j_sched' = "stopping"
    /\ UNCHANGED <<j_setup, j_starts, j_store, j_latest, j_error, ex_pc, ex_job,
                   db, run_record, stored, result, raised, caught>>
    /\ UNCHANGED <<dbVars, besidesJob>>

\* ... and returns when the executions in flight have ended (wait=True is
\* the default of shutdown)
StopReturn ==
    /\ UNCHANGED fetch
    /\ j_sched = "stopping"
    /\ \A w \in Threads : ex_pc[w] = "idle"
    /\ j_sched' = "stopped"
    /\ UNCHANGED <<j_setup, j_starts, j_store, j_latest, j_error, ex_pc, ex_job,
                   db, run_record, stored, result, raised, caught>>
    /\ UNCHANGED <<dbVars, besidesJob>>

\* the scheduler hands the func of job id to worker thread w, unless an
\* instance of that job is still running (max_instances is left at its
\* default of 1 by every add_job call); a job that runs once leaves the store
Dispatch(w, id) ==
    /\ UNCHANGED fetch
    /\ j_sched = "running"
    /\ ex_pc[w] = "idle"
    /\ \E r \in j_store : r.id = id
    /\ \A v \in Threads : ex_job[v] # id
    /\ j_store' = IF id \in OnceJobIds THEN {r \in j_store : r.id # id} ELSE j_store
    /\ ex_pc' = [ex_pc EXCEPT ![w] = "open"]
    /\ ex_job' = [ex_job EXCEPT ![w] = id]
    /\ UNCHANGED <<j_setup, j_sched, j_starts, j_latest, j_error, db, run_record,
                   stored, result, raised, caught>>
    /\ UNCHANGED <<dbVars, besidesSched>>

\* a trigger of job id comes due, at whatever time that is
Fire(w, id) ==
    /\ Dispatch(w, id)
    /\ UNCHANGED calVars

\* the same on the scheduler's clock: job id is due in the current hour
FireDue(w, id) ==
    /\ Due(id, j_cal)
    /\ Dispatch(w, id)
    /\ j_cal' = [j_cal EXCEPT !.ran = @ \cup {[id |-> id, at |-> j_cal.hour]}]

\* an hour passes; a job that is due at once is dispatched before that
Advance ==
    /\ j_cal.hour < MaxHour
    /\ ~(j_sched = "running" /\ \E r \in j_store : r.id \in OnceJobIds)
    /\ j_cal' = [j_cal EXCEPT !.hour = @ + 1]
    /\ UNCHANGED <<jobVars, dbVars, besidesSched>>

\* the wrapper's first statement, before its try. Scheduler.py lines 64 and
\* 76: db = next(get_db()); the generator is the operand of next() only, so
\* it is finalized as soon as next() has returned: GeneratorExit enters it
\* at the yield and its finally clause closes and unregisters the session
\* the wrapper has just been given. scheduler.py lines 81, 99, 111, 123:
\* db = SessionLocal(). RuntimeError of get_db is raised outside the try
\* statement and leaves the wrapper.
OpenHandle(w) ==
    /\ UNCHANGED fetch
    /\ ex_pc[w] = "open"
    /\ IF j_setup.class = "AgentScheduler" /\ GetDbRaises(initialized)
       THEN /\ ex_pc' = [ex_pc EXCEPT ![w] = "escaped"]
            /\ UNCHANGED <<ex_job, db, open_sessions, active_connections>>
       ELSE LET s == NewSession(LiveSessions)
            IN  /\ ex_pc' = [ex_pc EXCEPT ![w] =
                        IF ex_job[w] \in CveJobIds THEN "record" ELSE "body"]
                /\ db' = [db EXCEPT ![w] = s]
                /\ IF j_setup.class = "AgentScheduler"
                   THEN /\ active_connections' = UnregisterConnection(
                               RegisterConnection(active_connections, w, s, now), w)
                        /\ open_sessions' = open_sessions
                   ELSE /\ active_connections' = active_connections
                        /\ open_sessions' = open_sessions \cup {s}
                /\ UNCHANGED ex_job
    /\ UNCHANGED <<j_setup, j_sched, j_starts, j_store, j_latest, j_error,
                   run_record, stored, result, raised, caught>>
    /\ UNCHANGED <<initialized, gen, gen_last>>
    /\ UNCHANGED besidesJob

\* the body's exception e arrives at the wrapper: `except Exception` logs
\* it, and the finally clause is next either way
BodyRaises(w, e) ==
    /\ raised' = [raised EXCEPT ![w] = e]
    /\ caught' = [caught EXCEPT ![w] = WrapperCatches(e)]
    /\ ex_pc' = [ex_pc EXCEPT ![w] = "finally"]

\* CVECollectorAgent.run lines 125-127, before its try: the run-record is
\* created "running" and committed; a failing commit leaves run()
RunCreateRecord(w, commit_ok) ==
    /\ UNCHANGED fetch
    /\ ex_pc[w] = "record"
    /\ run_record' = [run_record EXCEPT ![w] = NewRunRecord]
    /\ open_sessions' = open_sessions \cup {db[w]}
    /\ IF commit_ok
       THEN /\ stored' = [stored EXCEPT ![w] = run_record'[w].status]
            /\ ex_pc' = [ex_pc EXCEPT ![w] = "work"]
            /\ UNCHANGED <<raised, caught>>
       ELSE /\ BodyRaises(w, "OperationalError")
            /\ UNCHANGED stored
    /\ UNCHANGED <<j_setup, j_sched, j_starts, j_store, j_latest, j_error,
                   ex_job, db, result>>
    /\ UNCHANGED <<initialized, active_connections, gen, gen_last>>
    /\ UNCHANGED besidesJob

\* run lines 129-144: _fetch_nvd_feed (lines 181-233) either completes or
\* hits an error (fetch_ok = FALSE), which its own except clause of lines
\* 230-231 logs before the list is returned, so the try block of run leaves
\* through line 144 or, when the commit of line 141 raises, through the
\* except clause of line 146
RunWork(w, fetch_ok, commit_ok) ==
    /\ ex_pc[w] = "work"
    /\ fetch' = [fetch EXCEPT ![w] = FetchEnd(fetch_ok)]
    /\ run_record' = [run_record EXCEPT ![w] = SuccessRecord(@)]
    /\ IF commit_ok
       THEN /\ stored' = [stored EXCEPT ![w] = run_record'[w].status]
            /\ result' = [result EXCEPT ![w] = "success"]
            /\ ex_pc' = [ex_pc EXCEPT ![w] = "finally"]
       ELSE /\ ex_pc' = [ex_pc EXCEPT ![w] = "handler"]
            /\ UNCHANGED <<stored, result>>
    /\ UNCHANGED <<j_setup, j_sched, j_starts, j_store, j_latest, j_error,
                   ex_job, db, raised, caught>>
    /\ UNCHANGED <<dbVars, besidesJob>>

\* run lines 146-152: the record is marked failed and committed; a failing
\* commit leaves run()
RunHandler(w, commit_ok) ==
    /\ UNCHANGED fetch
    /\ ex_pc[w] = "handler"
    /\ run_record' = [run_record EXCEPT ![w] = FailedRecord(@, "OperationalError")]
    /\ IF commit_ok
       THEN /\ stored' = [stored EXCEPT ![w] = run_record'[w].status]
            /\ result' = [result EXCEPT ![w] = "failed"]
            /\ ex_pc' = [ex_pc EXCEPT ![w] = "finally"]
            /\ UNCHANGED <<raised, caught>>
       ELSE /\ BodyRaises(w, "OperationalError")
            /\ UNCHANGED <<stored, result>>
    /\ UNCHANGED <<j_setup, j_sched, j_starts, j_store, j_latest, j_error,
                   ex_job, db>>
    /\ UNCHANGED <<dbVars, besidesJob>>

\* the run(db) of an agent other than CVECollectorAgent returns or raises
OtherBody(w, ok) ==
    /\ UNCHANGED fetch
    /\ ex_pc[w] = "body"
    /\ open_sessions' = open_sessions \cup {db[w]}
    /\ IF ok
       THEN /\ result' = [result EXCEPT ![w] = "returned"]
            /\ ex_pc' = [ex_pc EXCEPT ![w] = "finally"]
            /\ UNCHANGED <<raised, caught>>
       ELSE /\ BodyRaises(w, "Exception")
            /\ UNCHANGED result
    /\ UNCHANGED <<j_setup, j_sched, j_starts, j_store, j_latest, j_error,
                   ex_job, db, run_record, stored>>
    /\ UNCHANGED <<initialized, active_connections, gen, gen_last>>
    /\ UNCHANGED besidesJob

\* the wrapper's finally clause: db.close()
WrapperFinally(w) ==
    /\ UNCHANGED fetch
    /\ ex_pc[w] = "finally"
    /\ open_sessions' = open_sessions \ WrapperCloses(db[w])
    /\ ex_pc' = [ex_pc EXCEPT ![w] = "return"]
    /\ UNCHANGED <<j_setup, j_sched, j_starts, j_store, j_latest, j_error,
                   ex_job, db, run_record, stored, result, raised, caught>>
    /\ UNCHANGED <<initialized, active_connections, gen, gen_last>>
    /\ UNCHANGED besidesJob

\* the wrapper returns to the scheduler's worker thread, or its exception
\* arrives there, and its locals go
WrapperReturn(w) ==
    /\ ex_pc[w] \in {"return", "escaped"}
    /\ ex_pc' = [ex_pc EXCEPT ![w] = "idle"]
    /\ ex_job' = [ex_job EXCEPT ![w] = "none"]
    /\ db' = [db EXCEPT ![w] = 0]
    /\ run_record' = [run_record EXCEPT ![w] = NoRunRecord]
    /\ stored' = [stored EXCEPT ![w] = "none"]
    /\ result' = [result EXCEPT ![w] = "none"]
    /\ raised' = [raised EXCEPT ![w] = "none"]
    /\ caught' = [caught EXCEPT ![w] = FALSE]
    /\ fetch' = [fetch EXCEPT ![w] = "none"]
    /\ UNCHANGED <<j_setup, j_sched, j_starts, j_store, j_latest, j_error>>
    /\ UNCHANGED <<dbVars, besidesJob>>

NextJob ==
    \/ Start
    \/ StopCall
    \/ StopReturn
    \/ \E w \in Threads, id \in JobIds : Fire(w, id)
    \/ \E w \in Threads : OpenHandle(w)
    \/ \E w \in Threads, ok \in BOOLEAN : RunCreateRecord(w, ok)
    \/ \E w \in Threads, f \in BOOLEAN, ok \in BOOLEAN : RunWork(w, f, ok)
    \/ \E w \in Threads, ok \in BOOLEAN : RunHandler(w, ok)
    \/ \E w \in Threads, ok \in BOOLEAN : OtherBody(w, ok)
    \/ \E w \in Threads : WrapperFinally(w)
    \/ \E w \in Threads : WrapperReturn(w)

\* the same, with start() called again on the running scheduler
NextRestart ==
    \/ Start
    \/ Restart
    \/ StopCall
    \/ StopReturn
    \/ \E w \in Threads, id \in JobIds : Fire(w, id)
    \/ \E w \in Threads : OpenHandle(w)
    \/ \E w \in Threads, ok \in BOOLEAN : RunCreateRecord(w, ok)
    \/ \E w \in Threads, f \in BOOLEAN, ok \in BOOLEAN : RunWork(w, f, ok)
    \/ \E w \in Threads, ok \in BOOLEAN : RunHandler(w, ok)
    \/ \E w \in Threads, ok \in BOOLEAN : OtherBody(w, ok)
    \/ \E w \in Threads : WrapperFinally(w)
    \/ \E w \in Threads : WrapperReturn(w)

\* AgentScheduler on its clock
NextDay ==
    \/ Start
    \/ Advance
    \/ StopCall
    \/ StopReturn
    \/ \E w \in Threads, id \in JobIds : FireDue(w, id)
    \/ \E w \in Threads : OpenHandle(w)
    \/ \E w \in Threads, ok \in BOOLEAN : RunCreateRecord(w, ok)
    \/ \E w \in Threads, f \in BOOLEAN, ok \in BOOLEAN : RunWork(w, f, ok)
    \/ \E w \in Threads, ok \in BOOLEAN : RunHandler(w, ok)
    \/ \E w \in Threads, ok \in BOOLEAN : OtherBody(w, ok)
    \/ \E w \in Threads : WrapperFinally(w)
    \/ \E w \in Threads : WrapperReturn(w)

\* ---- DatabaseManager.py

\* init_db(), lines 83-139
InitDbCall ==
    /\ ~initialized
    /\ initialized' = TRUE
    /\ UNCHANGED <<active_connections, open_sessions, gen, gen_last>>
    /\ UNCHANGED besidesDb

\* next(get_db()): the generator runs to its yield, lines 156-170
GetDbNext(t) ==
    /\ gen[t] = 0
    /\ IF GetDbRaises(initialized)
       THEN /\ gen_last' = GenCall(t, "next", "none", 0, FALSE, FALSE, FALSE,
                                   "RuntimeError")
            /\ UNCHANGED <<active_connections, open_sessions, gen>>
       ELSE LET s == NewSession(LiveSessions)
            IN  /\ open_sessions' = open_sessions \cup {s}
                /\ active_connections' =
                       RegisterConnection(active_connections, t, s, now)
                /\ gen' = [gen EXCEPT ![t] = s]
                /\ gen_last' = GenCall(t, "next", "none", s, FALSE, FALSE, FALSE,
                                       "none")
    /\ UNCHANGED initialized
    /\ UNCHANGED besidesDb

\* the generator is left from its yield, lines 170-186
GetDbEnd(t, end, commit_ok) ==
    /\ gen[t] # 0
    /\ end \in GenEnds
    /\ end.op # "resume" => commit_ok
    /\ open_sessions' = open_sessions \ {gen[t]}
    /\ active_connections' = UnregisterConnection(active_connections, t)
    /\ gen' = [gen EXCEPT ![t] = 0]
    /\ gen_last' = GenCall(t, end.op, end.user, gen[t],
                           CommitsOn(end.op) /\ commit_ok,
                           RollsBackOn(end.op, commit_ok), TRUE,
                           GenError(end.op, commit_ok))
    /\ UNCHANGED initialized
    /\ UNCHANGED besidesDb

\* `with get_db() as db:` as the docstring (lines 146-151) prescribes:
\* get_db is not wrapped by contextmanager, a generator has no __enter__,
\* so the statement raises TypeError and the generator never runs
GetDbWith(t) ==
    /\ gen[t] = 0
    /\ gen_last' = GenCall(t, "with", "none", 0, FALSE, FALSE, FALSE, "TypeError")
    /\ UNCHANGED <<initialized, active_connections, open_sessions, gen>>
    /\ UNCHANGED besidesDb

\* the sessions the tracker holds an entry for
TrackedSessions == {active_connections[t].session : t \in DOMAIN active_connections}

\* thread t calls get_db_no_context(), lines 198-203; the RuntimeError of
\* line 199 changes nothing. The tracker refers to the sessions of its
\* entries, so the new session is none of them.
GetDbNoContext(t) ==
    /\ ~GetDbRaises(initialized)
    /\ LET s == NewSession(LiveSessions \cup TrackedSessions)
       IN  /\ s # 0
           /\ open_sessions' = open_sessions \cup {s}
           /\ active_connections' =
                  RegisterConnection(active_connections, t, s, now)
    /\ UNCHANGED <<initialized, gen, gen_last>>
    /\ UNCHANGED besidesDb

\* the caller of get_db_no_context closes its session s by hand, as the
\* docstring (line 193) demands: db.close()
CloseSession(s) ==
    /\ s \in open_sessions
    /\ \A t \in Threads : gen[t] # s
    /\ open_sessions' = open_sessions \ {s}
    /\ UNCHANGED <<initialized, active_connections, gen, gen_last>>
    /\ UNCHANGED besidesDb

\* ---- ConnectionTracker and JobLockManager diagnostics

\* thread t calls ConnectionTracker.register_connection(session), lines 37-46
Register(t) ==
    /\ active_connections' = RegisterConnection(active_connections, t,
                                                NewSession(LiveSessions), now)
    /\ UNCHANGED <<initialized, open_sessions, gen, gen_last>>
    /\ UNCHANGED besidesDb

\* thread t calls ConnectionTracker.unregister_connection(session), lines 48-53
Unregister(t) ==
    /\ active_connections' = UnregisterConnection(active_connections, t)
    /\ UNCHANGED <<initialized, open_sessions, gen, gen_last>>
    /\ UNCHANGED besidesDb

\* ConnectionTracker.check_for_leaks(max_age_seconds), lines 55-73
CheckForLeaks(max_age_seconds) ==
    /\ diag' = [NoDiag EXCEPT !.op = "check_for_leaks",
                   !.warned = LeakWarnings(active_connections, now, max_age_seconds)]
    /\ UNCHANGED <<lockVars, dbVars, besidesDiag>>

\* JobLockManager.is_running(job_name), JobLock.py lines 72-75
IsRunning(t, j) ==
    /\ LockFree(lock)
    /\ diag' = [NoDiag EXCEPT !.op = "is_running", !.job = j,
                   !.is_running = DictHas(active_jobs, j)]
    /\ UNCHANGED <<lockVars, dbVars, besidesDiag>>

\* JobLockManager.get_running_jobs(), JobLock.py lines 77-86
GetRunningJobs(t) ==
    /\ LockFree(lock)
    /\ diag' = [NoDiag EXCEPT !.op = "get_running_jobs",
                   !.running = RunningJobs(active_jobs, now)]
    /\ UNCHANGED <<lockVars, dbVars, besidesDiag>>

NextDb ==
    \/ InitDbCall
    \/ \E t \in Threads : GetDbNext(t)
    \/ \E t \in Threads, end \in GenEnds, ok \in BOOLEAN : GetDbEnd(t, end, ok)
    \/ \E t \in Threads : GetDbWith(t)
    \/ \E m \in Timeouts : CheckForLeaks(m)
    \/ Tick

\* sessions of get_db and of get_db_no_context in an initialized process,
\* and the leak check; however a get_db generator is left, its finally
\* clause closes and unregisters alike, so it is resumed here
NextTrack ==
    \/ \E t \in Threads :
           GetDbEnd(t, [op |-> "resume", user |-> "completed"], TRUE)
    \/ \E t \in Threads : GetDbNext(t)
    \/ \E t \in Threads : GetDbNoContext(t)
    \/ \E s \in 1..(2 * NumThreads) : CloseSession(s)
    \/ \E m \in Timeouts : CheckForLeaks(m)
    \/ Tick

\* the lock manager and the connection tracker in use, and their diagnostics
NextDiag ==
    \/ \E t \in Threads, j \in Jobs, to \in Timeouts : CallAcquire(t, j, to)
    \/ \E t \in Threads, j \in Jobs : CallRelease(t, j)
    \/ \E t \in Threads : AcquireCheck(t)
    \/ \E t \in Threads : AcquireInsert(t)
    \/ \E t \in Threads : ReleaseRemove(t)
    \/ Tick
    \/ \E t \in Threads : Register(t)
    \/ \E t \in Threads : Unregister(t)
    \/ \E t \in Threads, j \in Jobs : IsRunning(t, j)
    \/ \E t \in Threads : GetRunningJobs(t)
    \/ \E m \in Timeouts : CheckForLeaks(m)

NextCtx ==
    \/ \E t \in Threads, j \in Jobs, to \in Timeouts : CtxEnter(t, j, to)
    \/ \E t \in Threads : AcquireCheck(t)
    \/ \E t \in Threads : AcquireInsert(t)
    \/ \E t \in Threads, e \in BOOLEAN : BodyFinish(t, e)
    \/ \E t \in Threads : ReleaseRemove(t)
    \/ Tick

NextLock ==
    \/ \E t \in Threads, j \in Jobs, to \in Timeouts : CallAcquire(t, j, to)
    \/ \E t \in Threads, j \in Jobs : CallRelease(t, j)
    \/ \E t \in Threads : AcquireCheck(t)
    \/ \E t \in Threads : AcquireInsert(t)
    \/ \E t \in Threads : ReleaseRemove(t)
    \/ Tick

NextRL ==
    \/ \E t \in Threads : RLCall(t)
    \/ \E t \in Threads : RLWake(t)
    \/ \E t \in Threads : RLStats(t)
    \/ RLTick

\* direct acquire_lock / release_lock calls
NextReg ==
    \/ \E t \in Threads, a \in ApiNames : RegCall(t, a)
    \/ \E t \in Threads : RegLock(t)
    \/ \E t \in Threads : RegCreate(t)
    \/ \E t \in Threads : RegWait(t)
    \/ \E t \in Threads : RegWake(t)
    \/ RegTick

NextRetry ==
    \/ RetryStart
    \/ \E res \in {"ok"} \cup Kinds, r \in Draws : RetryAttempt(res, r)
    \/ RetryWake

\* a function wrapped by retry_with_backoff
NextDecorate ==
    \/ \E a \in RetryArgs : Decorate(a)
    \/ DecoratedCall
    \/ \E res \in {"ok"} \cup Kinds, r \in Draws : RetryAttempt(res, r)
    \/ RetryWake

SpecLock == InitParked /\ [][NextLock]_vars

\* the same while the wall clock keeps running
FairClock == WF_vars(Tick)

SpecLockFair == SpecLock /\ FairClock

\* the lock manager used through JobLockContext only
SpecCtx == InitParked /\ [][NextCtx]_vars

\* every thread that is inside a call keeps running; a thread that waits
\* for the manager's mutex at the end of its body gets it at some time
\* when the mutex is free again and again; every body ends
FairCtx ==
    \A t \in Threads :
        /\ WF_vars(AcquireCheck(t))
        /\ WF_vars(AcquireInsert(t))
        /\ SF_vars(\E e \in BOOLEAN : BodyFinish(t, e))
        /\ WF_vars(ReleaseRemove(t))

SpecCtxFair == SpecCtx /\ FairCtx

\* one RateLimiter
SpecRL == Init /\ [][NextRL]_vars

\* the registry and its limiters, used through the rate_limit wrapper
SpecReg == InitParked /\ [][NextReg]_vars

\* one retried operation, called again and again
SpecRetry == InitRetry /\ [][NextRetry]_vars

\* a scheduler, its worker threads and the jobs they execute
SpecJob == InitJob /\ [][NextJob]_vars

\* the same with repeated start() calls
SpecRestart == InitJob /\ [][NextRestart]_vars

\* lock calls, tracker calls and the diagnostics of both
SpecDecorate == InitParked /\ [][NextDecorate]_vars

SpecTrack == InitParked /\ [][NextTrack]_vars

SpecImport == InitParked /\ [][NextImport]_vars

SpecDay == InitParked /\ [][NextDay]_vars

SpecDiag == InitParked /\ [][NextDiag]_vars

\* threads that use sessions of get_db, and the leak check
SpecDb == InitDb /\ [][NextDb]_vars

\* ================================================================= claims

LeavesCheck(t) == pc[t] = "acquire_check" /\ pc'[t] # "acquire_check"
Denied(t) == pc[t] = "acquire_check" /\ pc'[t] \notin {"acquire_check", "acquire_insert"}
Grants(t) == pc[t] = "acquire_insert" /\ pc'[t] # "acquire_insert"
Age(j) == now - active_jobs[j].started_at

\* C1: for one job name, an acquire_lock is granted while an earlier grant
\* is still unreleased only if the lock's age exceeded the timeout of the
\* call; every other grant follows a release_lock for that name (or is the
\* first), and an entry of the table is always such a live grant.
C1_GrantNeedsReleaseOrTimeout ==
    [][ /\ \A t \in Threads :
             (pc[t] = "acquire_check" /\ pc'[t] = "acquire_insert") =>
                 LET j == frame[t].job
                 IN \/ ~held[j]
                    \/ (DictHas(active_jobs, j) /\ Age(j) > frame[t].timeout)
        /\ \A j \in Jobs : DictHas(active_jobs, j) => held[j]
      ]_lockVars

\* a release_lock that removed an entry is followed by an acquire_lock for
\* the same job that finds no entry and goes on to be granted
C1_Witness ==
    /\ last.op = "release" /\ last.had
    /\ \E t \in Threads :
          /\ pc[t] = "acquire_insert"
          /\ frame[t].job = last.job
          /\ ~frame[t].takeover

\* C2 (as stated): no two invocations of one job's body, each inside
\* JobLockContext, run at the same time.
C2_NoOverlap == \A j \in Jobs : Cardinality(Running(j)) <= 1

\* C2 (amended): two invocations of one job's body run at the same time only
\* after the lock of a still-running invocation of that job was forcibly
\* taken over (its age exceeded the timeout) since the job was last idle.
C2_OverlapOnlyAfterTakeover ==
    \A j \in Jobs : Cardinality(Running(j)) >= 2 => forced[j]

\* one invocation runs, no takeover has happened, and a second trigger of
\* the same job has just been denied
C2_Witness ==
    \E j \in Jobs :
        /\ Cardinality(Running(j)) = 1
        /\ ~forced[j]
        /\ last.op = "acquire" /\ ~last.ret /\ last.job = j

\* C3: the critical sections of acquire_lock and release_lock exclude one
\* another: at most one thread is between check and insert or inside the
\* removal, the insert finds the table as the check left it, and of the
\* acquire_lock calls that find no entry for a job only one is granted: an
\* insert that is no takeover never follows another grant without a
\* release_lock between them.
C3_AtomicAcquire ==
    /\ Cardinality({t \in Threads : InCritical(t)}) <= 1
    /\ \A t \in Threads : InCritical(t) => lock = t
    /\ \A t \in Threads :
          pc[t] = "acquire_insert" => ~DictHas(active_jobs, frame[t].job)
    /\ \A t \in Threads :
          (pc[t] = "acquire_insert" /\ ~frame[t].takeover) => ~held[frame[t].job]

\* at one instant one acquire_lock for a job was granted and another one
\* for the same job has just been denied
C3_Witness ==
    \E j \in Jobs :
        /\ held[j]
        /\ last.op = "acquire" /\ ~last.ret /\ last.job = j
        /\ DictHas(active_jobs, j) /\ Age(j) = 0

\* C4: acquire_lock on a job that has an entry is granted exactly when the
\* entry's age is strictly greater than timeout_seconds; then the old entry
\* is discarded and the new one carries the current time; otherwise the call
\* returns False.
C4_TakeoverIffOlderThanTimeout ==
    [][ \A t \in Threads :
          LET j == frame[t].job
          IN /\ (LeavesCheck(t) /\ DictHas(active_jobs, j)) =>
                   /\ (pc'[t] = "acquire_insert") <=> (Age(j) > frame[t].timeout)
                   /\ (Age(j) > frame[t].timeout) => ~DictHas(active_jobs', j)
                   /\ (Age(j) <= frame[t].timeout) =>
                          (last'.op = "acquire" /\ ~last'.ret)
             /\ Grants(t) =>
                   /\ DictHas(active_jobs', j)
                   /\ active_jobs'[j].started_at = now
                   /\ last'.op = "acquire" /\ last'.ret
      ]_lockVars

\* a takeover has completed: the job's entry is stamped with the current
\* time, which is later than the start of the run
C4_Witness ==
    /\ last.op = "acquire" /\ last.ret /\ last.takeover
    /\ DictHas(active_jobs, last.job)
    /\ active_jobs[last.job].started_at = now
    /\ now > 0

\* C5: a denied acquire_lock leaves the whole lock table unchanged.
C5_DeniedLeavesTable ==
    [][ \A t \in Threads : Denied(t) => active_jobs' = active_jobs ]_lockVars

\* after a denial the job's entry still carries its earlier timestamp and
\* another job's entry is in the table
C5_Witness ==
    /\ last.op = "acquire" /\ ~last.ret
    /\ DictHas(active_jobs, last.job)
    /\ active_jobs[last.job].started_at < now
    /\ \E k \in Jobs : k # last.job /\ DictHas(active_jobs, k)

\* C6: release_lock removes the job's entry if present, raises nothing when
\* there is none, leaves the entries of other jobs alone, and releasing
\* twice gives the table that releasing once gives.
C6_ReleaseIdempotentTotal ==
    [][ /\ \A t \in Threads :
             (pc[t] = "release_remove" /\ pc'[t] # "release_remove") =>
                 LET j == frame[t].job
                 IN /\ ~DictHas(active_jobs', j)
                    /\ \A k \in Jobs \ {j} :
                          /\ DictHas(active_jobs', k) <=> DictHas(active_jobs, k)
                          /\ DictHas(active_jobs, k) => active_jobs'[k] = active_jobs[k]
                    /\ last'.op = "release" /\ last'.outcome = "returned"
        /\ \A j \in Jobs :
             LET once == ReleaseResult(active_jobs, j)
                 twice == ReleaseResult(once.table, j)
             IN ~once.raised /\ ~twice.raised /\ twice.table = once.table
      ]_lockVars

\* a release_lock of a job that held no lock returned normally while
\* another job's entry stayed in the table
C6_Witness ==
    /\ last.op = "release" /\ ~last.had /\ last.outcome = "returned"
    /\ \E k \in Jobs : k # last.job /\ DictHas(active_jobs, k)

\* C7: once JobLockContext was entered, every way out of the body goes
\* through release_lock, after which the job has no entry, and the block
\* ends by raising exactly when the body raised.
C7_ExitReleasesAndReraises ==
    [][ \A t \in Threads :
          /\ (pc[t] = "body" /\ pc'[t] # "body") => pc'[t] = "release_remove"
          /\ (pc[t] = "release_remove" /\ pc'[t] # "release_remove" /\ frame[t].ctx) =>
                /\ ~DictHas(active_jobs', frame[t].job)
                /\ last'.op = "release"
                /\ (last'.outcome = "raised") <=> frame[t].exc
      ]_lockVars

\* a with-block whose body raised has ended: its lock was in the table, is
\* gone now, and the exception reached the caller
C7_Witness ==
    /\ last.op = "release" /\ last.outcome = "raised" /\ last.had
    /\ ~DictHas(active_jobs, last.job)

\* C8: when acquisition is denied, __enter__ raises "job is already
\* running", the body does not run, and the entry of the running invocation
\* stays in the table.
C8_DeniedEnterRaises ==
    [][ \A t \in Threads :
          /\ (Denied(t) /\ frame[t].ctx) =>
                /\ pc'[t] = "idle"
                /\ last'.outcome = "already_running"
                /\ DictHas(active_jobs', frame[t].job)
                /\ active_jobs'[frame[t].job] = active_jobs[frame[t].job]
          /\ pc'[t] = "body" => frame'[t].acquired
      ]_lockVars

\* a with-block was refused while the invocation holding the lock is still
\* in its body and its entry is still in the table
C8_Witness ==
    /\ last.op = "acquire" /\ last.outcome = "already_running"
    /\ DictHas(active_jobs, last.job)
    /\ Running(last.job) # {}

\* C9: after any sequence of wait_if_needed calls the token count satisfies
\* 0 <= tokens <= max_tokens.
C9_TokensInRange == 0 <= tokens /\ tokens <= MaxTokens(rpm)

\* C10: on a fresh limiter with max_tokens = N, the first N calls made with
\* no time passing return without sleeping, and the call after them, made at
\* the same instant, sleeps for 60/N seconds (Resolution ticks) or longer
\* before it returns.
C10_BurstThenBlock ==
    rl_last.quiet =>
        /\ (1 <= rl_last.index /\ rl_last.index <= rpm) =>
               (~rl_last.blocked /\ rl_last.waited = 0)
        /\ rl_last.index = rpm + 1 =>
               /\ rl_last.blocked
               /\ rl_last.wait_time * rpm = Minute(rpm)
               /\ rl_last.waited >= rl_last.wait_time

\* the call after the burst has returned, having slept
C10_Witness ==
    /\ rl_last.quiet
    /\ rl_last.index = rpm + 1
    /\ rl_last.blocked
    /\ rl_last.waited > 0

\* C11: for a limiter built with requests_per_minute = N, at most N
\* wait_if_needed calls return within any 60-second window.
C11_AtMostNPerMinute == Len(returns) <= rpm

\* C12: while a caller of wait_if_needed sleeps for a token the limiter's
\* mutex is free, so get_stats and wait_if_needed of another thread can go
\* ahead without waiting for the sleeper.
C12_SleeperHoldsNoMutex ==
    (\E t \in Threads : rl_pc[t] = "sleep") =>
        /\ LockFree(rl_lock)
        /\ \E u \in Threads : ENABLED RLStats(u)

\* C14: the limiter without the 60-second reset answers every call of every
\* call sequence as the limiter with it (grants the same calls, blocks the
\* same calls) and ends each call with the same token count.
C14_ResetRedundant == shadow.live /\ shadow.tokens = tokens

\* C13: wait_if_needed calls on one limiter run their refill / wait /
\* decrement sequence one at a time: at most one thread is inside it, it
\* holds that limiter's lock, and nobody else changes the tokens meanwhile;
\* a call made with no time passed since the last one, and not blocked,
\* lowers the tokens by exactly one. Limiters of distinct API names have
\* distinct locks, and a limiter's lock is held only by a caller of that
\* limiter.
C13_Serial(a) ==
    /\ Cardinality(Sleepers(a)) <= 1
    /\ \A t \in Sleepers(a) : limiter_locks[rate_limiters[a].lock] = t
    /\ Sleepers(a) = {} => limiter_locks[rate_limiters[a].lock] = NoThread
    /\ \A b \in DOMAIN rate_limiters :
           a # b => rate_limiters[a].lock # rate_limiters[b].lock

C13_SerialPerLimiterIndependentAcrossNames ==
    [][ /\ \A a \in DOMAIN rate_limiters :
              /\ C13_Serial(a)
              /\ (\E t \in Sleepers(a) : reg_pc'[t] = "sleep") =>
                     rate_limiters'[a].tokens = rate_limiters[a].tokens
        /\ \A a \in DOMAIN rate_limiters' : C13_Serial(a)'
        /\ \A t \in Threads :
              (/\ reg_pc[t] = "have" /\ reg_pc'[t] = "idle"
               /\ rate_limiters[reg_frame[t].api].age = 0) =>
                  rate_limiters'[reg_frame[t].api].tokens =
                      rate_limiters[reg_frame[t].api].tokens - OneToken
      ]_regVars

\* while a caller of nvd_api sleeps for a token, a call on github_api has
\* gone through and its function was invoked
C13_Witness ==
    /\ Sleepers("nvd_api") # {}
    /\ DictHas(rate_limiters, "github_api")
    /\ Sleepers("github_api") = {}
    /\ rate_limiters["nvd_api"].age > 0
    /\ rate_limiters["github_api"].age = 0
    /\ reg_last.api = "github_api" /\ reg_last.outcome = "invoked"

\* C15: a call of a rate_limit wrapper for an API name outside the
\* configuration ends with the unknown-API error: the wrapped function is
\* not invoked, no limiter is created for the name and the limiters that
\* exist are left as they are.
C15_NoUnknown ==
    /\ DOMAIN rate_limiters \subseteq ConfiguredApis
    /\ \A t \in Threads : reg_frame[t].api \in ConfiguredApis \cup {""}
    /\ reg_last.outcome = "invoked" => reg_last.api \in ConfiguredApis

C15_UnknownApiRaisesAndChangesNothing ==
    [][ /\ C15_NoUnknown /\ C15_NoUnknown'
        /\ \A t \in Threads, a \in ApiNames \ ConfiguredApis :
              (reg_pc[t] = "idle" /\ reg_last' # reg_last /\ reg_last'.api = a) =>
                  /\ reg_last'.outcome = "unknown_api"
                  /\ rate_limiters' = rate_limiters
                  /\ limiter_locks' = limiter_locks
                  /\ reg_pc' = reg_pc
      ]_regVars

\* the error was raised while both configured limiters exist
C15_Witness ==
    /\ reg_last.outcome = "unknown_api" /\ reg_last.api = UnknownApi
    /\ DOMAIN rate_limiters = ConfiguredApis

\* C16: an operation that raises a retryable error on every attempt is
\* invoked exactly max_retries times; the call then ends on the
\* retries-exhausted path, raising the error of the final attempt. No call
\* ever invokes the operation more than max_retries times.
C16_ExhaustedAfterMaxRetries ==
    /\ hist.invoked <= cfg.max_retries
    /\ (/\ r_pc = "idle" /\ hist.invoked > 0
        /\ hist.failed = hist.invoked /\ ~hist.unclassified) =>
           /\ hist.invoked = cfg.max_retries
           /\ r_outcome = [kind |-> "exhausted", error |-> cfg.max_retries]

\* all of two or more attempts failed with retryable errors
C16_Witness ==
    /\ r_pc = "idle" /\ r_outcome.kind = "exhausted"
    /\ ~hist.unclassified
    /\ cfg.max_retries >= 2 /\ hist.invoked = cfg.max_retries
    /\ Len(hist.waits) = cfg.max_retries - 1

\* C17: an operation that fails f times (f < max_retries) and then succeeds
\* is invoked exactly f+1 times and the call returns with that success;
\* there were exactly f waits, and with jitter off the k-th of them is
\* min(initial_backoff * multiplier^(k-1), max_backoff).
C17_Expected(k) ==
    Min(cfg.initial_backoff * Pow(cfg.backoff_multiplier, k - 1),
        cfg.max_backoff) * WaitUnit

C17_SucceedsAfterFailures ==
    (r_pc = "idle" /\ r_outcome.kind = "returned") =>
        /\ hist.failed < cfg.max_retries
        /\ hist.invoked = hist.failed + 1
        /\ Len(hist.waits) = hist.failed
        /\ ~cfg.jitter =>
              \A k \in 1..hist.failed : hist.waits[k] = C17_Expected(k)

\* two failures, then success, with a growing backoff and no jitter
C17_Witness ==
    /\ r_pc = "idle" /\ r_outcome.kind = "returned"
    /\ ~cfg.jitter
    /\ hist.failed = 2
    /\ hist.waits[1] < hist.waits[2]

C19_Clamped ==
    Min(cfg.initial_backoff * Pow(cfg.backoff_multiplier, attempt - 1),
        cfg.max_backoff)

C19_ClampThenJitter ==
    r_pc = "sleep" =>
        /\ cfg.jitter =>
              /\ pending.wait = C19_Clamped * (JitterSteps + 2 * pending.draw)
              /\ 2 * pending.wait >= C19_Clamped * WaitUnit
              /\ 2 * pending.wait < 3 * C19_Clamped * WaitUnit
        /\ ~cfg.jitter =>
              /\ pending.wait = C19_Clamped * WaitUnit
              /\ pending.wait <= cfg.max_backoff * WaitUnit

\* the backoff was clamped to max_backoff and jitter then made the wait
\* longer than max_backoff
C19_Witness ==
    /\ r_pc = "sleep" /\ cfg.jitter
    /\ cfg.initial_backoff * Pow(cfg.backoff_multiplier, attempt - 1)
           > cfg.max_backoff
    /\ pending.wait > cfg.max_backoff * WaitUnit

\* C20: after any execute call of a RetryableOperation, a second call on the
\* same object included, attempts is the number of invocations made in that
\* call and last_error is the last error raised in that call, None when its
\* first attempt succeeded.
C20_FreshPerExecute ==
    (r_shape = "oneshot" /\ r_pc = "idle" /\ hist.executes >= 1) =>
        /\ op_attempts = hist.invoked
        /\ op_last_error = hist.error

\* C21: every job id has at most one job in the store, and that job carries
\* the trigger of the most recent registration of the id: registering an id
\* that is already scheduled replaces the earlier definition
C21_ReRegistrationReplaces ==
    /\ \A r1, r2 \in j_store : r1.id = r2.id => r1 = r2
    /\ \A r \in j_store : r.trig = j_latest[r.id]

\* C22: an exception that leaves a job body is taken by the wrapper's except
\* clause, so the wrapper goes on to its finally clause and its return; the
\* scheduler keeps running, and every job in its store of which no
\* instance is executing can still be handed to every idle worker
C22_BodyExceptionStaysInWrapper ==
    \A w \in Threads : raised[w] # "none" =>
        /\ caught[w]
        /\ ex_pc[w] \in {"finally", "return"}
        /\ j_sched \in {"running", "stopping"}
        /\ j_sched = "running" =>
               \A r \in j_store, w2 \in Threads :
                   (ex_pc[w2] = "idle" /\ \A v \in Threads : ex_job[v] # r.id)
                       => ENABLED Fire(w2, r.id)

\* a body has raised in one worker while the scheduler has dispatched a job
\* to another one
C22_Witness ==
    \E w, w2 \in Threads :
        /\ raised[w] # "none" /\ caught[w]
        /\ j_sched = "running"
        /\ ex_pc[w2] = "open"

\* C23: when an execution of the CVE job reaches the wrapper's finally clause
\* after its body raised (the exception left run(), or run() handled it and
\* returned "failed"), the committed run-record has status "failed" and a
\* non-empty error message
C23_RaisingBodyRecordedFailed ==
    \A w \in Threads :
        (/\ ex_pc[w] = "finally"
         /\ ex_job[w] \in CveJobIds
         /\ (raised[w] # "none" \/ result[w] = "failed")) =>
            /\ stored[w] = "failed"
            /\ run_record[w].status = "failed"
            /\ run_record[w].error_message # ""

\* C24: in an execution of CVECollectorAgent.run the run-record exists with
\* status "running" once the try block is entered; when run has returned,
\* the record's status is "success" or "failed", its completion timestamp
\* is set, and the returned status, the record's status and the committed
\* status are the same
C24_RecordFollowsRun ==
    \A w \in Threads : ex_job[w] \in CveJobIds =>
        /\ ex_pc[w] = "work" =>
               run_record[w].status = "running" /\ stored[w] = "running"
        /\ result[w] # "none" =>
               /\ run_record[w].status \in {"success", "failed"}
               /\ run_record[w].completed_at
               /\ result[w] = run_record[w].status
               /\ stored[w] = run_record[w].status

\* run has returned "failed" in one worker and "success" in another
C24_Witness ==
    \E w, w2 \in Threads :
        /\ ex_job[w] \in CveJobIds /\ result[w] = "failed"
        /\ ex_job[w2] \in CveJobIds /\ result[w2] = "success"

\* the positions of a wrapper at which the body runs or has run
InBody == {"record", "work", "handler", "body", "finally"}

C26_DeniedTriggerDropped ==
    /\ [][\A t \in Threads : (Denied(t) /\ frame[t].ctx) =>
              /\ pc'[t] = "idle"
              /\ frame'[t] = IdleFrame
              /\ active_jobs' = active_jobs
              /\ last'.outcome = "already_running"]_vars
    /\ [][\A t \in Threads : (pc[t] # "body" /\ pc'[t] = "body") =>
              (Grants(t) /\ frame'[t].acquired)]_vars
    /\ \A t \in Threads : (pc[t] = "acquire_check") ~> (pc[t] = "idle")

\* a context was denied while another thread runs the body of the same job
\* and every other thread is idle
C26_Witness ==
    /\ last.op = "acquire" /\ last.outcome = "already_running"
    /\ \E t \in Threads :
           /\ pc[t] = "body" /\ frame[t].job = last.job
           /\ \A u \in Threads \ {t} : pc[u] = "idle"

\* acquire_lock(j, to) would find job j free or its entry older than to
Acquirable(j, to) == ~DictHas(active_jobs, j) \/ Age(j) > to

\* C27: an acquire_lock that finds the job's entry older than its timeout is
\* granted, whether or not the entry's holder ever releases; and while the
\* clock runs, a job whose entry can still outlive a timeout within the
\* modelled time becomes acquirable under that timeout again
C27_StaleLockDoesNotBlockForever ==
    /\ [][\A t \in Threads :
              LET j == frame[t].job
              IN  (/\ LeavesCheck(t)
                   /\ DictHas(active_jobs, j)
                   /\ Age(j) > frame[t].timeout) =>
                      pc'[t] = "acquire_insert"]_vars
    /\ [][\A t \in Threads : Grants(t) => (last'.op = "acquire" /\ last'.ret)]_vars
    /\ \A j \in Jobs, to \in Timeouts :
           (DictHas(active_jobs, j) /\ active_jobs[j].started_at + to < MaxTime)
               ~> Acquirable(j, to)

\* a lock that was granted and never released has been granted again
C27_Witness ==
    /\ last.op = "acquire" /\ last.ret /\ last.takeover
    /\ DictHas(active_jobs, last.job)
    /\ now = MaxTime
    /\ \A t \in Threads : pc[t] = "idle"

\* C28: stop() returns only when no job execution is in flight, and once it
\* has returned no session opened by a job execution is open, no connection
\* of one is registered with the tracker and no job lock is held
C28_NothingHeldAfterStop ==
    j_sched = "stopped" =>
        /\ \A w \in Threads : ex_pc[w] = "idle" /\ db[w] = 0
        /\ open_sessions = {}
        /\ active_connections = EmptyDict
        /\ active_jobs = EmptyDict

\* stop() has returned after the startup job was dispatched to a wrapper
\* that could open its session
C28_Witness ==
    /\ j_sched = "stopped"
    /\ j_setup.class = "AgentScheduler" /\ initialized
    /\ \A r \in j_store : r.id # "cve_collector_startup"

\* C29: a diagnostic call (is_running, get_running_jobs, check_for_leaks)
\* leaves the lock table and the tracker's table as they are, entries older
\* than any timeout included; get_running_jobs returns one item for each
\* job name in the lock table and for no other name, with the entry's age,
\* which is not negative; is_running tells whether the name is in the table
C29_DiagnosticsOnlyObserve ==
    [][diag' # diag =>
          /\ active_jobs' = active_jobs
          /\ active_connections' = active_connections
          /\ diag'.op = "get_running_jobs" =>
                 /\ {r.name : r \in diag'.running} = DOMAIN active_jobs
                 /\ Cardinality(diag'.running) = Cardinality(DOMAIN active_jobs)
                 /\ \A r \in diag'.running :
                        /\ r.elapsed_seconds >= 0
                        /\ r.elapsed_seconds = Age(r.name)
          /\ diag'.op = "is_running" =>
                 (diag'.is_running <=> DictHas(active_jobs, diag'.job))
          /\ diag'.op = "check_for_leaks" =>
                 diag'.warned \subseteq DOMAIN active_connections]_vars

\* get_running_jobs has reported an entry older than every timeout, the
\* entry is in the table with the same age, and the tracker holds a
\* connection older than every max_age the leak check is called with
C29_Witness ==
    /\ diag.op = "get_running_jobs"
    /\ \E r \in diag.running :
           /\ r.elapsed_seconds > MaxTimeout
           /\ DictHas(active_jobs, r.name) /\ Age(r.name) = r.elapsed_seconds
    /\ \E t \in DOMAIN active_connections :
           now - active_connections[t].at > MaxTimeout

\* C30: when the use of a session obtained from get_db has ended, the
\* session is closed and its thread's connection is unregistered; if the
\* user's code completed, the pending changes were committed (or the commit
\* itself failed); if it failed, they were rolled back and the exception
\* re-raised; and get_db before init_db raises without creating a session
C30_GetDbCleansUp ==
    /\ gen_last.user # "none" =>
           /\ gen_last.closed
           /\ gen_last.session \notin open_sessions
           /\ gen[gen_last.thread] = 0 =>
                  ~DictHas(active_connections, gen_last.thread)
    /\ gen_last.user = "completed" =>
           (gen_last.committed \/ gen_last.error = "commit_error")
    /\ gen_last.user = "failed" =>
           (gen_last.rolled_back /\ gen_last.error = "user_error")
    /\ gen_last.error = "RuntimeError" =>
           (gen_last.session = 0 /\ gen[gen_last.thread] = 0)

\* C31: under AgentScheduler the CVE collection body is executed at most
\* once per day, the day the process is started included: no two of its
\* dispatched runs fall on the same day
C31_CveBodyOncePerDay ==
    \A a, b \in j_cal.ran :
        (a # b /\ a.id \in CveJobIds /\ b.id \in CveJobIds)
            => DayOf(a.at) # DayOf(b.at)

\* C32: leaving a JobLockContext removes only the lock that this context
\* acquired: when the exiting context t acquired the lock of a job without a
\* takeover, and a context u that took the lock over after the timeout is
\* running the body of that job, the exit of t leaves the entry of the job
\* in the table
C32_ExitRemovesOnlyOwnLock ==
    [][\A t, u \in Threads :
          (/\ pc[t] = "release_remove" /\ pc'[t] = "idle"
           /\ frame[t].ctx /\ frame[t].acquired /\ ~frame[t].takeover
           /\ u # t /\ pc[u] = "body" /\ frame[u].job = frame[t].job
           /\ frame[u].acquired /\ frame[u].takeover)
          => DictHas(active_jobs', frame[t].job)]_vars

\* worker w is inside CVECollectorAgent.run, called by _run_cve_agent
InCveRun(w) == ex_job[w] \in CveJobIds /\ ex_pc[w] \in {"record", "work", "handler"}

\* C33: the CVE collection body is never executing in two threads at once
C33_CveBodyNeverConcurrent ==
    \A v, w \in Threads : (InCveRun(v) /\ InCveRun(w)) => v = w

\* C34: no exception escapes a scheduled job wrapper, whichever of its
\* steps fails, obtaining the database session included
C34_NothingEscapesWrapper ==
    \A w \in Threads : ex_pc[w] # "escaped"

\* C35: when CVECollectorAgent.run has returned, its run-record has status
\* "failed" if and only if the collection hit an error (in the fetch, or in
\* the commit that the except clause of run reports), and status "success"
\* only when the fetch completed
C35_FailedIffCollectionError ==
    \A w \in Threads : (ex_job[w] \in CveJobIds /\ result[w] # "none") =>
        /\ run_record[w].status = "failed"
               <=> (fetch[w] = "error" \/ run_record[w].error_message # "")
        /\ run_record[w].status = "success" => fetch[w] = "completed"

\* C36: get_rate_limiter creates at most one RateLimiter per API name: a
\* limiter of the registry is never dropped, and a caller that found no
\* limiter at its first check and finds one once it holds _limiter_lock
\* leaves the registry as it is, so that every caller is returned the one
\* limiter stored under the name, with the tokens the others left
C36_OneLimiterPerApi ==
    [][/\ DOMAIN rate_limiters \subseteq DOMAIN rate_limiters'
       /\ \A t \in Threads :
              (/\ reg_pc[t] = "locked" /\ reg_pc'[t] = "have"
               /\ DictHas(rate_limiters, reg_frame[t].api))
              => rate_limiters' = rate_limiters]_vars

\* a caller that saw no limiter for its API holds _limiter_lock while the
\* limiter another caller created meanwhile has already given out tokens
C36_Witness ==
    \E t \in Threads :
        /\ reg_pc[t] = "locked"
        /\ DictHas(rate_limiters, reg_frame[t].api)
        /\ rate_limiters[reg_frame[t].api].tokens
               < MaxTokens(rate_limiters[reg_frame[t].api].requests_per_minute)

\* C37: in one retried call a backoff wait occurs only between two
\* attempts: every attempt but the first follows exactly one wait, a
\* returned call has waited once per failed attempt, a call that ended with
\* an error has not waited after its final failed attempt, and there are at
\* most max_retries - 1 waits
C37_WaitsOnlyBetweenAttempts ==
    LET waits == Len(hist.waits)
    IN  /\ waits <= cfg.max_retries - 1
        /\ r_pc = "attempt" => (attempt = waits + 1 /\ hist.failed = waits)
        /\ r_pc = "sleep" => (attempt = waits + 1 /\ hist.failed = waits + 1)
        /\ (r_pc = "idle" /\ r_outcome.kind = "returned") => hist.failed = waits
        /\ (r_pc = "idle" /\ r_outcome.kind \in {"exhausted", "propagated"})
               => hist.failed = waits + 1

\* a call has failed max_retries times, more than twice, and has waited
\* after every failed attempt but the last
C37_Witness ==
    /\ r_pc = "idle"
    /\ r_outcome.kind = "exhausted"
    /\ hist.failed = cfg.max_retries
    /\ Len(hist.waits) = cfg.max_retries - 1
    /\ Len(hist.waits) >= 2

\* C38: every argument passed to retry_with_backoff, 0 and False included,
\* is the value the wrapper uses
C38_ExplicitArgumentsUsed ==
    r_args # <<>> =>
        LET a == r_args[1]
        IN  /\ a.max_retries >= 0 => cfg.max_retries = a.max_retries
            /\ a.initial_backoff >= 0 => cfg.initial_backoff = a.initial_backoff
            /\ a.backoff_multiplier >= 0
                   => cfg.backoff_multiplier = a.backoff_multiplier
            /\ a.max_backoff >= 0 => cfg.max_backoff = a.max_backoff
            /\ a.jitter # "None" => cfg.jitter = (a.jitter = "True")

\* C39: the ConnectionTracker holds an entry for every session that is
\* registered and open, and no entry for a session that was unregistered
\* or closed, so that the leak check sees exactly the open sessions
C39_TrackerHoldsOpenSessions ==
    TrackedSessions = open_sessions

\* C40: when import_file has processed the n items of a file, every item is
\* counted in exactly one of the three counters: imported_count +
\* skipped_count + error_count is the number of items processed so far, and
\* the returned imported + skipped + errors is n
C40_EveryItemCountedOnce ==
    /\ importer.pc = "loop" =>
           importer.imported_count + importer.skipped_count
               + importer.error_count = importer.idx - 1
    /\ (importer.pc = "done" /\ importer.idx > 0) =>
           importer.result.imported + importer.result.skipped
               + importer.result.errors = Len(importer.file)

====
